---- MODULE Spec2Model ----
(***************************************************************************)
(* Model of the natural-language-to-Elasticsearch query compiler:          *)
(* QueryTransformer.transform (query_transformer.py), the pydantic query   *)
(* grammar it parses the model output with, the global performance tracer  *)
(* (performance_tracer.py) and the callers that hand the result to the     *)
(* index client (app.py, elastic_query.py, test_performance.py).           *)
(***************************************************************************)
EXTENDS Integers, Sequences, FiniteSets, TLC

(***************************************************************************)
(* Text.  A text is the sequence of its Unicode code points, so that every *)
(* character Python can hold has a value here.  Chars gives the text of an *)
(* ASCII string literal.                                                   *)
(***************************************************************************)
\* the code point of every character a string literal is written with.
\* Ascii holds the printable ASCII characters from U+0020 on, each at the
\* place of its code point less 31 (the place of U+0060 holds a tab)
Codes ==
    LET Ascii ==
          " !\"#$%&'()*+,-./0123456789:;<=>?@ABCDEFGHIJKLMNOPQRSTUVWXYZ[\\]^_\tabcdefghijklmnopqrstuvwxyz{|}~"
    IN  [c \in {SubSeq(Ascii, i, i) : i \in 1..Len(Ascii)} \cup {"\n", "\f", "\r"} |->
            CASE c = "\t" -> 9
              [] c = "\n" -> 10
              [] c = "\f" -> 12
              [] c = "\r" -> 13
              [] OTHER -> 31 + CHOOSE i \in 1..Len(Ascii) : SubSeq(Ascii, i, i) = c]

\* ord(c) of a one-character ASCII string
ord(c) == Codes[c]

\* the text of an ASCII string
Chars(s) == [i \in 1..Len(s) |-> ord(SubSeq(s, i, i))]

\* the code points of Unicode's White_Space property, which Rust's
\* str::trim removes
White_Space ==
    (9..13) \cup {32, 133, 160, 5760} \cup (8192..8202)
            \cup {8232, 8233, 8239, 8287, 12288}

\* the code points str.strip() removes when called without an argument,
\* those for which str.isspace() holds: White_Space and the information
\* separators U+001C to U+001F
Whitespace == White_Space \cup (28..31)

\* q without its leading, its trailing characters of S
RECURSIVE lstrip_of(_, _)
lstrip_of(q, S) == IF Len(q) > 0 /\ Head(q) \in S THEN lstrip_of(Tail(q), S) ELSE q
RECURSIVE rstrip_of(_, _)
rstrip_of(q, S) ==
    IF Len(q) > 0 /\ q[Len(q)] \in S THEN rstrip_of(SubSeq(q, 1, Len(q) - 1), S) ELSE q

\* str.lstrip(), str.rstrip() and str.strip()
lstrip(q) == lstrip_of(q, Whitespace)
rstrip(q) == rstrip_of(q, Whitespace)
strip(q) == rstrip(lstrip(q))

\* The case tables of the Unicode database CPython 3.11 is built with.  A
\* row <<lo, hi>> is a range of code points; a row <<lo, hi, step, d>> says
\* that every step-th code point from lo to hi maps to itself plus d, or,
\* where d is a sequence, to that sequence.  Rows are in ascending order of
\* lo.
\* code points with the Case_Ignorable property
CaseIgnorable ==
  <<
    <<39, 39>>, <<46, 46>>, <<58, 58>>, <<94, 94>>, <<96, 96>>, <<168,
    168>>, <<173, 173>>, <<175, 175>>, <<180, 180>>, <<183, 184>>, <<688,
    879>>, <<884, 885>>, <<890, 890>>, <<900, 901>>, <<903, 903>>, <<1155,
    1161>>, <<1369, 1369>>, <<1375, 1375>>, <<1425, 1469>>, <<1471,
    1471>>, <<1473, 1474>>, <<1476, 1477>>, <<1479, 1479>>, <<1524,
    1524>>, <<1536, 1541>>, <<1552, 1562>>, <<1564, 1564>>, <<1600,
    1600>>, <<1611, 1631>>, <<1648, 1648>>, <<1750, 1757>>, <<1759,
    1768>>, <<1770, 1773>>, <<1807, 1807>>, <<1809, 1809>>, <<1840,
    1866>>, <<1958, 1968>>, <<2027, 2037>>, <<2042, 2042>>, <<2045,
    2045>>, <<2070, 2093>>, <<2137, 2139>>, <<2184, 2184>>, <<2192,
    2193>>, <<2200, 2207>>, <<2249, 2306>>, <<2362, 2362>>, <<2364,
    2364>>, <<2369, 2376>>, <<2381, 2381>>, <<2385, 2391>>, <<2402,
    2403>>, <<2417, 2417>>, <<2433, 2433>>, <<2492, 2492>>, <<2497,
    2500>>, <<2509, 2509>>, <<2530, 2531>>, <<2558, 2558>>, <<2561,
    2562>>, <<2620, 2620>>, <<2625, 2626>>, <<2631, 2632>>, <<2635,
    2637>>, <<2641, 2641>>, <<2672, 2673>>, <<2677, 2677>>, <<2689,
    2690>>, <<2748, 2748>>, <<2753, 2757>>, <<2759, 2760>>, <<2765,
    2765>>, <<2786, 2787>>, <<2810, 2815>>, <<2817, 2817>>, <<2876,
    2876>>, <<2879, 2879>>, <<2881, 2884>>, <<2893, 2893>>, <<2901,
    2902>>, <<2914, 2915>>, <<2946, 2946>>, <<3008, 3008>>, <<3021,
    3021>>, <<3072, 3072>>, <<3076, 3076>>, <<3132, 3132>>, <<3134,
    3136>>, <<3142, 3144>>, <<3146, 3149>>, <<3157, 3158>>, <<3170,
    3171>>, <<3201, 3201>>, <<3260, 3260>>, <<3263, 3263>>, <<3270,
    3270>>, <<3276, 3277>>, <<3298, 3299>>, <<3328, 3329>>, <<3387,
    3388>>, <<3393, 3396>>, <<3405, 3405>>, <<3426, 3427>>, <<3457,
    3457>>, <<3530, 3530>>, <<3538, 3540>>, <<3542, 3542>>, <<3633,
    3633>>, <<3636, 3642>>, <<3654, 3662>>, <<3761, 3761>>, <<3764,
    3772>>, <<3782, 3782>>, <<3784, 3789>>, <<3864, 3865>>, <<3893,
    3893>>, <<3895, 3895>>, <<3897, 3897>>, <<3953, 3966>>, <<3968,
    3972>>, <<3974, 3975>>, <<3981, 3991>>, <<3993, 4028>>, <<4038,
    4038>>, <<4141, 4144>>, <<4146, 4151>>, <<4153, 4154>>, <<4157,
    4158>>, <<4184, 4185>>, <<4190, 4192>>, <<4209, 4212>>, <<4226,
    4226>>, <<4229, 4230>>, <<4237, 4237>>, <<4253, 4253>>, <<4348,
    4348>>, <<4957, 4959>>, <<5906, 5908>>, <<5938, 5939>>, <<5970,
    5971>>, <<6002, 6003>>, <<6068, 6069>>, <<6071, 6077>>, <<6086,
    6086>>, <<6089, 6099>>, <<6103, 6103>>, <<6109, 6109>>, <<6155,
    6159>>, <<6211, 6211>>, <<6277, 6278>>, <<6313, 6313>>, <<6432,
    6434>>, <<6439, 6440>>, <<6450, 6450>>, <<6457, 6459>>, <<6679,
    6680>>, <<6683, 6683>>, <<6742, 6742>>, <<6744, 6750>>, <<6752,
    6752>>, <<6754, 6754>>, <<6757, 6764>>, <<6771, 6780>>, <<6783,
    6783>>, <<6823, 6823>>, <<6832, 6862>>, <<6912, 6915>>, <<6964,
    6964>>, <<6966, 6970>>, <<6972, 6972>>, <<6978, 6978>>, <<7019,
    7027>>, <<7040, 7041>>, <<7074, 7077>>, <<7080, 7081>>, <<7083,
    7085>>, <<7142, 7142>>, <<7144, 7145>>, <<7149, 7149>>, <<7151,
    7153>>, <<7212, 7219>>, <<7222, 7223>>, <<7288, 7293>>, <<7376,
    7378>>, <<7380, 7392>>, <<7394, 7400>>, <<7405, 7405>>, <<7412,
    7412>>, <<7416, 7417>>, <<7468, 7530>>, <<7544, 7544>>, <<7579,
    7679>>, <<8125, 8125>>, <<8127, 8129>>, <<8141, 8143>>, <<8157,
    8159>>, <<8173, 8175>>, <<8189, 8190>>, <<8203, 8207>>, <<8216,
    8217>>, <<8228, 8228>>, <<8231, 8231>>, <<8234, 8238>>, <<8288,
    8292>>, <<8294, 8303>>, <<8305, 8305>>, <<8319, 8319>>, <<8336,
    8348>>, <<8400, 8432>>, <<11388, 11389>>, <<11503, 11505>>, <<11631,
    11631>>, <<11647, 11647>>, <<11744, 11775>>, <<11823, 11823>>,
    <<12293, 12293>>, <<12330, 12333>>, <<12337, 12341>>, <<12347,
    12347>>, <<12441, 12446>>, <<12540, 12542>>, <<40981, 40981>>,
    <<42232, 42237>>, <<42508, 42508>>, <<42607, 42610>>, <<42612,
    42621>>, <<42623, 42623>>, <<42652, 42655>>, <<42736, 42737>>,
    <<42752, 42785>>, <<42864, 42864>>, <<42888, 42890>>, <<42994,
    42996>>, <<43000, 43001>>, <<43010, 43010>>, <<43014, 43014>>,
    <<43019, 43019>>, <<43045, 43046>>, <<43052, 43052>>, <<43204,
    43205>>, <<43232, 43249>>, <<43263, 43263>>, <<43302, 43309>>,
    <<43335, 43345>>, <<43392, 43394>>, <<43443, 43443>>, <<43446,
    43449>>, <<43452, 43453>>, <<43471, 43471>>, <<43493, 43494>>,
    <<43561, 43566>>, <<43569, 43570>>, <<43573, 43574>>, <<43587,
    43587>>, <<43596, 43596>>, <<43632, 43632>>, <<43644, 43644>>,
    <<43696, 43696>>, <<43698, 43700>>, <<43703, 43704>>, <<43710,
    43711>>, <<43713, 43713>>, <<43741, 43741>>, <<43756, 43757>>,
    <<43763, 43764>>, <<43766, 43766>>, <<43867, 43871>>, <<43881,
    43883>>, <<44005, 44005>>, <<44008, 44008>>, <<44013, 44013>>,
    <<64286, 64286>>, <<64434, 64450>>, <<65024, 65039>>, <<65043,
    65043>>, <<65056, 65071>>, <<65106, 65106>>, <<65109, 65109>>,
    <<65279, 65279>>, <<65287, 65287>>, <<65294, 65294>>, <<65306,
    65306>>, <<65342, 65342>>, <<65344, 65344>>, <<65392, 65392>>,
    <<65438, 65439>>, <<65507, 65507>>, <<65529, 65531>>, <<66045,
    66045>>, <<66272, 66272>>, <<66422, 66426>>, <<67456, 67461>>,
    <<67463, 67504>>, <<67506, 67514>>, <<68097, 68099>>, <<68101,
    68102>>, <<68108, 68111>>, <<68152, 68154>>, <<68159, 68159>>,
    <<68325, 68326>>, <<68900, 68903>>, <<69291, 69292>>, <<69446,
    69456>>, <<69506, 69509>>, <<69633, 69633>>, <<69688, 69702>>,
    <<69744, 69744>>, <<69747, 69748>>, <<69759, 69761>>, <<69811,
    69814>>, <<69817, 69818>>, <<69821, 69821>>, <<69826, 69826>>,
    <<69837, 69837>>, <<69888, 69890>>, <<69927, 69931>>, <<69933,
    69940>>, <<70003, 70003>>, <<70016, 70017>>, <<70070, 70078>>,
    <<70089, 70092>>, <<70095, 70095>>, <<70191, 70193>>, <<70196,
    70196>>, <<70198, 70199>>, <<70206, 70206>>, <<70367, 70367>>,
    <<70371, 70378>>, <<70400, 70401>>, <<70459, 70460>>, <<70464,
    70464>>, <<70502, 70508>>, <<70512, 70516>>, <<70712, 70719>>,
    <<70722, 70724>>, <<70726, 70726>>, <<70750, 70750>>, <<70835,
    70840>>, <<70842, 70842>>, <<70847, 70848>>, <<70850, 70851>>,
    <<71090, 71093>>, <<71100, 71101>>, <<71103, 71104>>, <<71132,
    71133>>, <<71219, 71226>>, <<71229, 71229>>, <<71231, 71232>>,
    <<71339, 71339>>, <<71341, 71341>>, <<71344, 71349>>, <<71351,
    71351>>, <<71453, 71455>>, <<71458, 71461>>, <<71463, 71467>>,
    <<71727, 71735>>, <<71737, 71738>>, <<71995, 71996>>, <<71998,
    71998>>, <<72003, 72003>>, <<72148, 72151>>, <<72154, 72155>>,
    <<72160, 72160>>, <<72193, 72202>>, <<72243, 72248>>, <<72251,
    72254>>, <<72263, 72263>>, <<72273, 72278>>, <<72281, 72283>>,
    <<72330, 72342>>, <<72344, 72345>>, <<72752, 72758>>, <<72760,
    72765>>, <<72767, 72767>>, <<72850, 72871>>, <<72874, 72880>>,
    <<72882, 72883>>, <<72885, 72886>>, <<73009, 73014>>, <<73018,
    73018>>, <<73020, 73021>>, <<73023, 73029>>, <<73031, 73031>>,
    <<73104, 73105>>, <<73109, 73109>>, <<73111, 73111>>, <<73459,
    73460>>, <<78896, 78904>>, <<92912, 92916>>, <<92976, 92982>>,
    <<92992, 92995>>, <<94031, 94031>>, <<94095, 94111>>, <<94176,
    94177>>, <<94179, 94180>>, <<110576, 110579>>, <<110581, 110587>>,
    <<110589, 110590>>, <<113821, 113822>>, <<113824, 113827>>, <<118528,
    118573>>, <<118576, 118598>>, <<119143, 119145>>, <<119155, 119170>>,
    <<119173, 119179>>, <<119210, 119213>>, <<119362, 119364>>, <<121344,
    121398>>, <<121403, 121452>>, <<121461, 121461>>, <<121476, 121476>>,
    <<121499, 121503>>, <<121505, 121519>>, <<122880, 122886>>, <<122888,
    122904>>, <<122907, 122913>>, <<122915, 122916>>, <<122918, 122922>>,
    <<123184, 123197>>, <<123566, 123566>>, <<123628, 123631>>, <<125136,
    125142>>, <<125252, 125259>>, <<127995, 127999>>, <<917505, 917505>>,
    <<917536, 917631>>, <<917760, 917999>>
  >>

\* code points with the Cased property
Cased ==
  <<
    <<65, 90>>, <<97, 122>>, <<170, 170>>, <<181, 181>>, <<186, 186>>,
    <<192, 214>>, <<216, 246>>, <<248, 442>>, <<444, 447>>, <<452, 659>>,
    <<661, 696>>, <<704, 705>>, <<736, 740>>, <<837, 837>>, <<880, 883>>,
    <<886, 887>>, <<890, 893>>, <<895, 895>>, <<902, 902>>, <<904, 906>>,
    <<908, 908>>, <<910, 929>>, <<931, 1013>>, <<1015, 1153>>, <<1162,
    1327>>, <<1329, 1366>>, <<1376, 1416>>, <<4256, 4293>>, <<4295,
    4295>>, <<4301, 4301>>, <<4304, 4346>>, <<4349, 4351>>, <<5024,
    5109>>, <<5112, 5117>>, <<7296, 7304>>, <<7312, 7354>>, <<7357,
    7359>>, <<7424, 7615>>, <<7680, 7957>>, <<7960, 7965>>, <<7968,
    8005>>, <<8008, 8013>>, <<8016, 8023>>, <<8025, 8025>>, <<8027,
    8027>>, <<8029, 8029>>, <<8031, 8061>>, <<8064, 8116>>, <<8118,
    8124>>, <<8126, 8126>>, <<8130, 8132>>, <<8134, 8140>>, <<8144,
    8147>>, <<8150, 8155>>, <<8160, 8172>>, <<8178, 8180>>, <<8182,
    8188>>, <<8305, 8305>>, <<8319, 8319>>, <<8336, 8348>>, <<8450,
    8450>>, <<8455, 8455>>, <<8458, 8467>>, <<8469, 8469>>, <<8473,
    8477>>, <<8484, 8484>>, <<8486, 8486>>, <<8488, 8488>>, <<8490,
    8493>>, <<8495, 8500>>, <<8505, 8505>>, <<8508, 8511>>, <<8517,
    8521>>, <<8526, 8526>>, <<8544, 8575>>, <<8579, 8580>>, <<9398,
    9449>>, <<11264, 11492>>, <<11499, 11502>>, <<11506, 11507>>, <<11520,
    11557>>, <<11559, 11559>>, <<11565, 11565>>, <<42560, 42605>>,
    <<42624, 42653>>, <<42786, 42887>>, <<42891, 42894>>, <<42896,
    42954>>, <<42960, 42961>>, <<42963, 42963>>, <<42965, 42969>>,
    <<42997, 42998>>, <<43000, 43002>>, <<43824, 43866>>, <<43868,
    43880>>, <<43888, 43967>>, <<64256, 64262>>, <<64275, 64279>>,
    <<65313, 65338>>, <<65345, 65370>>, <<66560, 66639>>, <<66736,
    66771>>, <<66776, 66811>>, <<66928, 66938>>, <<66940, 66954>>,
    <<66956, 66962>>, <<66964, 66965>>, <<66967, 66977>>, <<66979,
    66993>>, <<66995, 67001>>, <<67003, 67004>>, <<67456, 67456>>,
    <<67459, 67461>>, <<67463, 67504>>, <<67506, 67514>>, <<68736,
    68786>>, <<68800, 68850>>, <<71840, 71903>>, <<93760, 93823>>,
    <<119808, 119892>>, <<119894, 119964>>, <<119966, 119967>>, <<119970,
    119970>>, <<119973, 119974>>, <<119977, 119980>>, <<119982, 119993>>,
    <<119995, 119995>>, <<119997, 120003>>, <<120005, 120069>>, <<120071,
    120074>>, <<120077, 120084>>, <<120086, 120092>>, <<120094, 120121>>,
    <<120123, 120126>>, <<120128, 120132>>, <<120134, 120134>>, <<120138,
    120144>>, <<120146, 120485>>, <<120488, 120512>>, <<120514, 120538>>,
    <<120540, 120570>>, <<120572, 120596>>, <<120598, 120628>>, <<120630,
    120654>>, <<120656, 120686>>, <<120688, 120712>>, <<120714, 120744>>,
    <<120746, 120770>>, <<120772, 120779>>, <<122624, 122633>>, <<122635,
    122654>>, <<125184, 125251>>, <<127280, 127305>>, <<127312, 127337>>,
    <<127344, 127369>>
  >>

\* code points whose lower case is one other code point (U+03A3 and U+0130
\* are handled in lower)
Lowercase ==
  <<
    <<65, 90, 1, 32>>, <<192, 214, 1, 32>>, <<216, 222, 1, 32>>, <<256,
    302, 2, 1>>, <<306, 310, 2, 1>>, <<313, 327, 2, 1>>, <<330, 374, 2,
    1>>, <<376, 376, 1, -121>>, <<377, 381, 2, 1>>, <<385, 385, 1, 210>>,
    <<386, 388, 2, 1>>, <<390, 390, 1, 206>>, <<391, 391, 1, 1>>, <<393,
    394, 1, 205>>, <<395, 395, 1, 1>>, <<398, 398, 1, 79>>, <<399, 399, 1,
    202>>, <<400, 400, 1, 203>>, <<401, 401, 1, 1>>, <<403, 403, 1, 205>>,
    <<404, 404, 1, 207>>, <<406, 406, 1, 211>>, <<407, 407, 1, 209>>,
    <<408, 408, 1, 1>>, <<412, 412, 1, 211>>, <<413, 413, 1, 213>>, <<415,
    415, 1, 214>>, <<416, 420, 2, 1>>, <<422, 422, 1, 218>>, <<423, 423,
    1, 1>>, <<425, 425, 1, 218>>, <<428, 428, 1, 1>>, <<430, 430, 1,
    218>>, <<431, 431, 1, 1>>, <<433, 434, 1, 217>>, <<435, 437, 2, 1>>,
    <<439, 439, 1, 219>>, <<440, 440, 1, 1>>, <<444, 444, 1, 1>>, <<452,
    452, 1, 2>>, <<453, 453, 1, 1>>, <<455, 455, 1, 2>>, <<456, 456, 1,
    1>>, <<458, 458, 1, 2>>, <<459, 475, 2, 1>>, <<478, 494, 2, 1>>,
    <<497, 497, 1, 2>>, <<498, 500, 2, 1>>, <<502, 502, 1, -97>>, <<503,
    503, 1, -56>>, <<504, 542, 2, 1>>, <<544, 544, 1, -130>>, <<546, 562,
    2, 1>>, <<570, 570, 1, 10795>>, <<571, 571, 1, 1>>, <<573, 573, 1,
    -163>>, <<574, 574, 1, 10792>>, <<577, 577, 1, 1>>, <<579, 579, 1,
    -195>>, <<580, 580, 1, 69>>, <<581, 581, 1, 71>>, <<582, 590, 2, 1>>,
    <<880, 882, 2, 1>>, <<886, 886, 1, 1>>, <<895, 895, 1, 116>>, <<902,
    902, 1, 38>>, <<904, 906, 1, 37>>, <<908, 908, 1, 64>>, <<910, 911, 1,
    63>>, <<913, 929, 1, 32>>, <<932, 939, 1, 32>>, <<975, 975, 1, 8>>,
    <<984, 1006, 2, 1>>, <<1012, 1012, 1, -60>>, <<1015, 1015, 1, 1>>,
    <<1017, 1017, 1, -7>>, <<1018, 1018, 1, 1>>, <<1021, 1023, 1, -130>>,
    <<1024, 1039, 1, 80>>, <<1040, 1071, 1, 32>>, <<1120, 1152, 2, 1>>,
    <<1162, 1214, 2, 1>>, <<1216, 1216, 1, 15>>, <<1217, 1229, 2, 1>>,
    <<1232, 1326, 2, 1>>, <<1329, 1366, 1, 48>>, <<4256, 4293, 1, 7264>>,
    <<4295, 4295, 1, 7264>>, <<4301, 4301, 1, 7264>>, <<5024, 5103, 1,
    38864>>, <<5104, 5109, 1, 8>>, <<7312, 7354, 1, -3008>>, <<7357, 7359,
    1, -3008>>, <<7680, 7828, 2, 1>>, <<7838, 7838, 1, -7615>>, <<7840,
    7934, 2, 1>>, <<7944, 7951, 1, -8>>, <<7960, 7965, 1, -8>>, <<7976,
    7983, 1, -8>>, <<7992, 7999, 1, -8>>, <<8008, 8013, 1, -8>>, <<8025,
    8031, 2, -8>>, <<8040, 8047, 1, -8>>, <<8072, 8079, 1, -8>>, <<8088,
    8095, 1, -8>>, <<8104, 8111, 1, -8>>, <<8120, 8121, 1, -8>>, <<8122,
    8123, 1, -74>>, <<8124, 8124, 1, -9>>, <<8136, 8139, 1, -86>>, <<8140,
    8140, 1, -9>>, <<8152, 8153, 1, -8>>, <<8154, 8155, 1, -100>>, <<8168,
    8169, 1, -8>>, <<8170, 8171, 1, -112>>, <<8172, 8172, 1, -7>>, <<8184,
    8185, 1, -128>>, <<8186, 8187, 1, -126>>, <<8188, 8188, 1, -9>>,
    <<8486, 8486, 1, -7517>>, <<8490, 8490, 1, -8383>>, <<8491, 8491, 1,
    -8262>>, <<8498, 8498, 1, 28>>, <<8544, 8559, 1, 16>>, <<8579, 8579,
    1, 1>>, <<9398, 9423, 1, 26>>, <<11264, 11311, 1, 48>>, <<11360,
    11360, 1, 1>>, <<11362, 11362, 1, -10743>>, <<11363, 11363, 1,
    -3814>>, <<11364, 11364, 1, -10727>>, <<11367, 11371, 2, 1>>, <<11373,
    11373, 1, -10780>>, <<11374, 11374, 1, -10749>>, <<11375, 11375, 1,
    -10783>>, <<11376, 11376, 1, -10782>>, <<11378, 11378, 1, 1>>,
    <<11381, 11381, 1, 1>>, <<11390, 11391, 1, -10815>>, <<11392, 11490,
    2, 1>>, <<11499, 11501, 2, 1>>, <<11506, 11506, 1, 1>>, <<42560,
    42604, 2, 1>>, <<42624, 42650, 2, 1>>, <<42786, 42798, 2, 1>>,
    <<42802, 42862, 2, 1>>, <<42873, 42875, 2, 1>>, <<42877, 42877, 1,
    -35332>>, <<42878, 42886, 2, 1>>, <<42891, 42891, 1, 1>>, <<42893,
    42893, 1, -42280>>, <<42896, 42898, 2, 1>>, <<42902, 42920, 2, 1>>,
    <<42922, 42922, 1, -42308>>, <<42923, 42923, 1, -42319>>, <<42924,
    42924, 1, -42315>>, <<42925, 42925, 1, -42305>>, <<42926, 42926, 1,
    -42308>>, <<42928, 42928, 1, -42258>>, <<42929, 42929, 1, -42282>>,
    <<42930, 42930, 1, -42261>>, <<42931, 42931, 1, 928>>, <<42932, 42946,
    2, 1>>, <<42948, 42948, 1, -48>>, <<42949, 42949, 1, -42307>>,
    <<42950, 42950, 1, -35384>>, <<42951, 42953, 2, 1>>, <<42960, 42960,
    1, 1>>, <<42966, 42968, 2, 1>>, <<42997, 42997, 1, 1>>, <<65313,
    65338, 1, 32>>, <<66560, 66599, 1, 40>>, <<66736, 66771, 1, 40>>,
    <<66928, 66964, 2, 39>>, <<66929, 66937, 2, 39>>, <<66941, 66953, 2,
    39>>, <<66957, 66961, 2, 39>>, <<66965, 66965, 1, 39>>, <<68736,
    68786, 1, 64>>, <<71840, 71871, 1, 32>>, <<93760, 93791, 1, 32>>,
    <<125184, 125217, 1, 34>>
  >>

\* code points whose upper case is one other code point
Uppercase ==
  <<
    <<97, 122, 1, -32>>, <<181, 181, 1, 743>>, <<224, 246, 1, -32>>,
    <<248, 254, 1, -32>>, <<255, 255, 1, 121>>, <<257, 303, 2, -1>>,
    <<305, 305, 1, -232>>, <<307, 311, 2, -1>>, <<314, 328, 2, -1>>,
    <<331, 375, 2, -1>>, <<378, 382, 2, -1>>, <<383, 383, 1, -300>>,
    <<384, 384, 1, 195>>, <<387, 389, 2, -1>>, <<392, 392, 1, -1>>, <<396,
    396, 1, -1>>, <<402, 402, 1, -1>>, <<405, 405, 1, 97>>, <<409, 409, 1,
    -1>>, <<410, 410, 1, 163>>, <<414, 414, 1, 130>>, <<417, 421, 2, -1>>,
    <<424, 424, 1, -1>>, <<429, 429, 1, -1>>, <<432, 432, 1, -1>>, <<436,
    438, 2, -1>>, <<441, 441, 1, -1>>, <<445, 445, 1, -1>>, <<447, 447, 1,
    56>>, <<453, 453, 1, -1>>, <<454, 454, 1, -2>>, <<456, 456, 1, -1>>,
    <<457, 457, 1, -2>>, <<459, 459, 1, -1>>, <<460, 460, 1, -2>>, <<462,
    476, 2, -1>>, <<477, 477, 1, -79>>, <<479, 495, 2, -1>>, <<498, 498,
    1, -1>>, <<499, 499, 1, -2>>, <<501, 501, 1, -1>>, <<505, 543, 2,
    -1>>, <<547, 563, 2, -1>>, <<572, 572, 1, -1>>, <<575, 576, 1,
    10815>>, <<578, 578, 1, -1>>, <<583, 591, 2, -1>>, <<592, 592, 1,
    10783>>, <<593, 593, 1, 10780>>, <<594, 594, 1, 10782>>, <<595, 595,
    1, -210>>, <<596, 596, 1, -206>>, <<598, 599, 1, -205>>, <<601, 601,
    1, -202>>, <<603, 603, 1, -203>>, <<604, 604, 1, 42319>>, <<608, 608,
    1, -205>>, <<609, 609, 1, 42315>>, <<611, 611, 1, -207>>, <<613, 613,
    1, 42280>>, <<614, 614, 1, 42308>>, <<616, 616, 1, -209>>, <<617, 617,
    1, -211>>, <<618, 618, 1, 42308>>, <<619, 619, 1, 10743>>, <<620, 620,
    1, 42305>>, <<623, 623, 1, -211>>, <<625, 625, 1, 10749>>, <<626, 626,
    1, -213>>, <<629, 629, 1, -214>>, <<637, 637, 1, 10727>>, <<640, 640,
    1, -218>>, <<642, 642, 1, 42307>>, <<643, 643, 1, -218>>, <<647, 647,
    1, 42282>>, <<648, 648, 1, -218>>, <<649, 649, 1, -69>>, <<650, 651,
    1, -217>>, <<652, 652, 1, -71>>, <<658, 658, 1, -219>>, <<669, 669, 1,
    42261>>, <<670, 670, 1, 42258>>, <<837, 837, 1, 84>>, <<881, 883, 2,
    -1>>, <<887, 887, 1, -1>>, <<891, 893, 1, 130>>, <<940, 940, 1, -38>>,
    <<941, 943, 1, -37>>, <<945, 961, 1, -32>>, <<962, 962, 1, -31>>,
    <<963, 971, 1, -32>>, <<972, 972, 1, -64>>, <<973, 974, 1, -63>>,
    <<976, 976, 1, -62>>, <<977, 977, 1, -57>>, <<981, 981, 1, -47>>,
    <<982, 982, 1, -54>>, <<983, 983, 1, -8>>, <<985, 1007, 2, -1>>,
    <<1008, 1008, 1, -86>>, <<1009, 1009, 1, -80>>, <<1010, 1010, 1, 7>>,
    <<1011, 1011, 1, -116>>, <<1013, 1013, 1, -96>>, <<1016, 1016, 1,
    -1>>, <<1019, 1019, 1, -1>>, <<1072, 1103, 1, -32>>, <<1104, 1119, 1,
    -80>>, <<1121, 1153, 2, -1>>, <<1163, 1215, 2, -1>>, <<1218, 1230, 2,
    -1>>, <<1231, 1231, 1, -15>>, <<1233, 1327, 2, -1>>, <<1377, 1414, 1,
    -48>>, <<4304, 4346, 1, 3008>>, <<4349, 4351, 1, 3008>>, <<5112, 5117,
    1, -8>>, <<7296, 7296, 1, -6254>>, <<7297, 7297, 1, -6253>>, <<7298,
    7298, 1, -6244>>, <<7299, 7300, 1, -6242>>, <<7301, 7301, 1, -6243>>,
    <<7302, 7302, 1, -6236>>, <<7303, 7303, 1, -6181>>, <<7304, 7304, 1,
    35266>>, <<7545, 7545, 1, 35332>>, <<7549, 7549, 1, 3814>>, <<7566,
    7566, 1, 35384>>, <<7681, 7829, 2, -1>>, <<7835, 7835, 1, -59>>,
    <<7841, 7935, 2, -1>>, <<7936, 7943, 1, 8>>, <<7952, 7957, 1, 8>>,
    <<7968, 7975, 1, 8>>, <<7984, 7991, 1, 8>>, <<8000, 8005, 1, 8>>,
    <<8017, 8023, 2, 8>>, <<8032, 8039, 1, 8>>, <<8048, 8049, 1, 74>>,
    <<8050, 8053, 1, 86>>, <<8054, 8055, 1, 100>>, <<8056, 8057, 1, 128>>,
    <<8058, 8059, 1, 112>>, <<8060, 8061, 1, 126>>, <<8112, 8113, 1, 8>>,
    <<8126, 8126, 1, -7205>>, <<8144, 8145, 1, 8>>, <<8160, 8161, 1, 8>>,
    <<8165, 8165, 1, 7>>, <<8526, 8526, 1, -28>>, <<8560, 8575, 1, -16>>,
    <<8580, 8580, 1, -1>>, <<9424, 9449, 1, -26>>, <<11312, 11359, 1,
    -48>>, <<11361, 11361, 1, -1>>, <<11365, 11365, 1, -10795>>, <<11366,
    11366, 1, -10792>>, <<11368, 11372, 2, -1>>, <<11379, 11379, 1, -1>>,
    <<11382, 11382, 1, -1>>, <<11393, 11491, 2, -1>>, <<11500, 11502, 2,
    -1>>, <<11507, 11507, 1, -1>>, <<11520, 11557, 1, -7264>>, <<11559,
    11559, 1, -7264>>, <<11565, 11565, 1, -7264>>, <<42561, 42605, 2,
    -1>>, <<42625, 42651, 2, -1>>, <<42787, 42799, 2, -1>>, <<42803,
    42863, 2, -1>>, <<42874, 42876, 2, -1>>, <<42879, 42887, 2, -1>>,
    <<42892, 42892, 1, -1>>, <<42897, 42899, 2, -1>>, <<42900, 42900, 1,
    48>>, <<42903, 42921, 2, -1>>, <<42933, 42947, 2, -1>>, <<42952,
    42954, 2, -1>>, <<42961, 42961, 1, -1>>, <<42967, 42969, 2, -1>>,
    <<42998, 42998, 1, -1>>, <<43859, 43859, 1, -928>>, <<43888, 43967, 1,
    -38864>>, <<65345, 65370, 1, -32>>, <<66600, 66639, 1, -40>>, <<66776,
    66811, 1, -40>>, <<66967, 67003, 2, -39>>, <<66968, 66976, 2, -39>>,
    <<66980, 66992, 2, -39>>, <<66996, 67000, 2, -39>>, <<67004, 67004, 1,
    -39>>, <<68800, 68850, 1, -64>>, <<71872, 71903, 1, -32>>, <<93792,
    93823, 1, -32>>, <<125218, 125251, 1, -34>>
  >>

\* code points whose upper case is more than one code point
SpecialCasing ==
  <<
    <<223, 223, 1, <<83, 83>>>>, <<329, 329, 1, <<700, 78>>>>, <<496, 496,
    1, <<74, 780>>>>, <<912, 912, 1, <<921, 776, 769>>>>, <<944, 944, 1,
    <<933, 776, 769>>>>, <<1415, 1415, 1, <<1333, 1362>>>>, <<7830, 7830,
    1, <<72, 817>>>>, <<7831, 7831, 1, <<84, 776>>>>, <<7832, 7832, 1,
    <<87, 778>>>>, <<7833, 7833, 1, <<89, 778>>>>, <<7834, 7834, 1, <<65,
    702>>>>, <<8016, 8016, 1, <<933, 787>>>>, <<8018, 8018, 1, <<933, 787,
    768>>>>, <<8020, 8020, 1, <<933, 787, 769>>>>, <<8022, 8022, 1, <<933,
    787, 834>>>>, <<8064, 8064, 1, <<7944, 921>>>>, <<8065, 8065, 1,
    <<7945, 921>>>>, <<8066, 8066, 1, <<7946, 921>>>>, <<8067, 8067, 1,
    <<7947, 921>>>>, <<8068, 8068, 1, <<7948, 921>>>>, <<8069, 8069, 1,
    <<7949, 921>>>>, <<8070, 8070, 1, <<7950, 921>>>>, <<8071, 8071, 1,
    <<7951, 921>>>>, <<8072, 8072, 1, <<7944, 921>>>>, <<8073, 8073, 1,
    <<7945, 921>>>>, <<8074, 8074, 1, <<7946, 921>>>>, <<8075, 8075, 1,
    <<7947, 921>>>>, <<8076, 8076, 1, <<7948, 921>>>>, <<8077, 8077, 1,
    <<7949, 921>>>>, <<8078, 8078, 1, <<7950, 921>>>>, <<8079, 8079, 1,
    <<7951, 921>>>>, <<8080, 8080, 1, <<7976, 921>>>>, <<8081, 8081, 1,
    <<7977, 921>>>>, <<8082, 8082, 1, <<7978, 921>>>>, <<8083, 8083, 1,
    <<7979, 921>>>>, <<8084, 8084, 1, <<7980, 921>>>>, <<8085, 8085, 1,
    <<7981, 921>>>>, <<8086, 8086, 1, <<7982, 921>>>>, <<8087, 8087, 1,
    <<7983, 921>>>>, <<8088, 8088, 1, <<7976, 921>>>>, <<8089, 8089, 1,
    <<7977, 921>>>>, <<8090, 8090, 1, <<7978, 921>>>>, <<8091, 8091, 1,
    <<7979, 921>>>>, <<8092, 8092, 1, <<7980, 921>>>>, <<8093, 8093, 1,
    <<7981, 921>>>>, <<8094, 8094, 1, <<7982, 921>>>>, <<8095, 8095, 1,
    <<7983, 921>>>>, <<8096, 8096, 1, <<8040, 921>>>>, <<8097, 8097, 1,
    <<8041, 921>>>>, <<8098, 8098, 1, <<8042, 921>>>>, <<8099, 8099, 1,
    <<8043, 921>>>>, <<8100, 8100, 1, <<8044, 921>>>>, <<8101, 8101, 1,
    <<8045, 921>>>>, <<8102, 8102, 1, <<8046, 921>>>>, <<8103, 8103, 1,
    <<8047, 921>>>>, <<8104, 8104, 1, <<8040, 921>>>>, <<8105, 8105, 1,
    <<8041, 921>>>>, <<8106, 8106, 1, <<8042, 921>>>>, <<8107, 8107, 1,
    <<8043, 921>>>>, <<8108, 8108, 1, <<8044, 921>>>>, <<8109, 8109, 1,
    <<8045, 921>>>>, <<8110, 8110, 1, <<8046, 921>>>>, <<8111, 8111, 1,
    <<8047, 921>>>>, <<8114, 8114, 1, <<8122, 921>>>>, <<8115, 8115, 1,
    <<913, 921>>>>, <<8116, 8116, 1, <<902, 921>>>>, <<8118, 8118, 1,
    <<913, 834>>>>, <<8119, 8119, 1, <<913, 834, 921>>>>, <<8124, 8124, 1,
    <<913, 921>>>>, <<8130, 8130, 1, <<8138, 921>>>>, <<8131, 8131, 1,
    <<919, 921>>>>, <<8132, 8132, 1, <<905, 921>>>>, <<8134, 8134, 1,
    <<919, 834>>>>, <<8135, 8135, 1, <<919, 834, 921>>>>, <<8140, 8140, 1,
    <<919, 921>>>>, <<8146, 8146, 1, <<921, 776, 768>>>>, <<8147, 8147, 1,
    <<921, 776, 769>>>>, <<8150, 8150, 1, <<921, 834>>>>, <<8151, 8151, 1,
    <<921, 776, 834>>>>, <<8162, 8162, 1, <<933, 776, 768>>>>, <<8163,
    8163, 1, <<933, 776, 769>>>>, <<8164, 8164, 1, <<929, 787>>>>, <<8166,
    8166, 1, <<933, 834>>>>, <<8167, 8167, 1, <<933, 776, 834>>>>, <<8178,
    8178, 1, <<8186, 921>>>>, <<8179, 8179, 1, <<937, 921>>>>, <<8180,
    8180, 1, <<911, 921>>>>, <<8182, 8182, 1, <<937, 834>>>>, <<8183,
    8183, 1, <<937, 834, 921>>>>, <<8188, 8188, 1, <<937, 921>>>>,
    <<64256, 64256, 1, <<70, 70>>>>, <<64257, 64257, 1, <<70, 73>>>>,
    <<64258, 64258, 1, <<70, 76>>>>, <<64259, 64259, 1, <<70, 70, 73>>>>,
    <<64260, 64260, 1, <<70, 70, 76>>>>, <<64261, 64261, 1, <<83, 84>>>>,
    <<64262, 64262, 1, <<83, 84>>>>, <<64275, 64275, 1, <<1348, 1350>>>>,
    <<64276, 64276, 1, <<1348, 1333>>>>, <<64277, 64277, 1, <<1348,
    1339>>>>, <<64278, 64278, 1, <<1358, 1350>>>>, <<64279, 64279, 1,
    <<1348, 1341>>>>
  >>

\* the place of the first row of table T from place i on that holds code
\* point c, 0 when there is none
Find(T, c, i) ==
    LET \* the rows are in the order of their first code point: the number
        \* of rows among the first n that begin at or before c, by halving
        RECURSIVE Upto(_, _)
        Upto(m, n) ==
            IF m = n THEN m
            ELSE LET h == (m + n + 1) \div 2
                 IN  IF T[h][1] <= c THEN Upto(h, n) ELSE Upto(m, h - 1)
        rows == {j \in i..Upto(0, Len(T)) :
                    /\ c <= T[j][2]
                    /\ (Len(T[j]) = 2 \/ (c - T[j][1]) % T[j][3] = 0)}
    IN  IF rows = {} THEN 0 ELSE CHOOSE j \in rows : \A k \in rows : j <= k

\* "".join(q): the pieces of q put together
RECURSIVE Joined(_)
Joined(q) == IF Len(q) = 0 THEN <<>> ELSE Head(q) \o Joined(Tail(q))

\* the nearest place from j on, going by step d, that is outside q or holds
\* a code point that is not case-ignorable
RECURSIVE Solid(_, _, _)
Solid(q, j, d) ==
    IF j < 1 \/ j > Len(q) \/ Find(CaseIgnorable, q[j], 1) = 0 THEN j
    ELSE Solid(q, j + d, d)

\* whether the capital sigma at place i of q ends a word: a cased letter
\* comes before it and none after it, case-ignorable characters skipped
final_sigma(q, i) ==
    LET b == Solid(q, i - 1, -1)
        a == Solid(q, i + 1, 1)
    IN  /\ b >= 1 /\ Find(Cased, q[b], 1) > 0
        /\ a > Len(q) \/ Find(Cased, q[a], 1) = 0

\* str.lower() and str.upper()
lower(q) ==
    Joined([i \in 1..Len(q) |->
        LET r == Find(Lowercase, q[i], 1)
        IN  CASE q[i] = 931 -> IF final_sigma(q, i) THEN <<962>> ELSE <<963>>
              [] q[i] = 304 -> <<105, 775>>
              [] OTHER -> IF r = 0 THEN <<q[i]>> ELSE <<q[i] + Lowercase[r][4]>>])
upper(q) ==
    Joined([i \in 1..Len(q) |->
        LET m == Find(SpecialCasing, q[i], 1)
            r == Find(Uppercase, q[i], 1)
        IN  IF m > 0 THEN SpecialCasing[m][4]
            ELSE IF r = 0 THEN <<q[i]>> ELSE <<q[i] + Uppercase[r][4]>>])

\* the decimal digits of ASCII
Digits == ord("0")..ord("9")

\* digits with single underscores between them, as in 1_000
IsDigitGroup(q) ==
    /\ Len(q) > 0
    /\ \A i \in 1..Len(q) :
          \/ q[i] \in Digits
          \/ /\ q[i] = ord("_")
             /\ i > 1 /\ q[i - 1] \in Digits
             /\ i < Len(q) /\ q[i + 1] \in Digits

\* the number a digit group spells, read from the left onto acc
RECURSIVE DigitsValue(_, _)
DigitsValue(q, acc) ==
    IF Len(q) = 0 THEN acc
    ELSE DigitsValue(Tail(q), IF Head(q) = ord("_") THEN acc
                              ELSE acc * Cardinality(Digits) + Head(q) - ord("0"))

(***************************************************************************)
(* Python values.  Every value is a tagged record so that values of        *)
(* different Python types can be compared.  A dict is a function from its  *)
(* keys to values, a list a sequence, a pydantic instance a class name     *)
(* with a function from field names to values.                             *)
(***************************************************************************)
None == [t |-> "None"]
\* a str, by its text
Text(q) == [t |-> "str", s |-> q]
\* the str an ASCII literal denotes
Str(s) == Text(Chars(s))
Num(n) == [t |-> "int", n |-> n]
\* a float, by its whole part and its hundredths: Float(2, 50) is 2.5
Float(w, h) == [t |-> "float", w |-> w, h |-> h]
Dict(f) == [t |-> "dict", d |-> f]
List(q) == [t |-> "list", l |-> q]
Instance(c, f) == [t |-> "model", cls |-> c, f |-> f]
EmptyDict == Dict([k \in {} |-> None])

\* pydantic's ValidationError, as the outcome of a validation
ValidationError == [t |-> "ValidationError"]
IsError(v) == v.t = "ValidationError"

\* dict.get(k) with the default None
Get(v, k) == IF k \in DOMAIN v.d THEN v.d[k] ELSE None

\* Python truthiness of a value, as used by `if result_dict.get('es_query')`
Truthy(v) ==
    CASE v.t = "None" -> FALSE
      [] v.t = "str" -> v.s # <<>>
      [] v.t = "int" -> v.n # 0
      [] v.t = "float" -> v.w # 0 \/ v.h # 0
      [] v.t = "dict" -> DOMAIN v.d # {}
      [] v.t = "list" -> Len(v.l) > 0
      [] OTHER -> TRUE


(***************************************************************************)
(* The query grammar: the pydantic models of query_transformer.py.         *)
(* Validation is pydantic's: a missing or wrongly typed required field is  *)
(* a ValidationError, an absent optional field defaults to None, unknown   *)
(* keys are ignored, and no field name or value is checked against the     *)
(* index mapping.                                                          *)
(***************************************************************************)
\* ValueType = str | int | float | bool | datetime | date
IsValueType(v) == v.t \in {"str", "int", "float"}

\* dict[str, ValueType]
IsValueDict(v) == v.t = "dict" /\ \A k \in DOMAIN v.d : IsValueType(v.d[k])

\* dict[str, dict[str, ValueType]]
IsRangeDict(v) == v.t = "dict" /\ \A k \in DOMAIN v.d : IsValueDict(v.d[k])

\* class MatchQuery: match: dict[str, ValueType]
MatchQuery(v) ==
    IF v.t = "dict" /\ "match" \in DOMAIN v.d /\ IsValueDict(v.d["match"])
    THEN Instance("MatchQuery", [match |-> v.d["match"]])
    ELSE ValidationError

\* class TermQuery: term: dict[str, ValueType]
TermQuery(v) ==
    IF v.t = "dict" /\ "term" \in DOMAIN v.d /\ IsValueDict(v.d["term"])
    THEN Instance("TermQuery", [term |-> v.d["term"]])
    ELSE ValidationError

\* class RangeQuery: range: dict[str, dict[str, ValueType]]
RangeQuery(v) ==
    IF v.t = "dict" /\ "range" \in DOMAIN v.d /\ IsRangeDict(v.d["range"])
    THEN Instance("RangeQuery", [range |-> v.d["range"]])
    ELSE ValidationError

\* MatchQuery | TermQuery | RangeQuery: the first member that validates
LeafQuery(v) ==
    IF ~IsError(MatchQuery(v)) THEN MatchQuery(v)
    ELSE IF ~IsError(TermQuery(v)) THEN TermQuery(v)
    ELSE RangeQuery(v)

\* list[MatchQuery | TermQuery | RangeQuery] | None = None
LeafList(v) ==
    IF v.t = "None" THEN None
    ELSE IF v.t = "list" /\ \A i \in 1..Len(v.l) : ~IsError(LeafQuery(v.l[i]))
    THEN List([i \in 1..Len(v.l) |-> LeafQuery(v.l[i])])
    ELSE ValidationError

ClauseNames == {"must", "should", "must_not", "filter"}

\* class BoolClause
BoolClause(v) ==
    IF v.t = "dict" /\ \A c \in ClauseNames : ~IsError(LeafList(Get(v, c)))
    THEN Instance("BoolClause", [c \in ClauseNames |-> LeafList(Get(v, c))])
    ELSE ValidationError

\* class BoolQuery: bool: BoolClause
BoolQuery(v) ==
    IF v.t = "dict" /\ "bool" \in DOMAIN v.d /\ ~IsError(BoolClause(v.d["bool"]))
    THEN Instance("BoolQuery", [bool |-> BoolClause(v.d["bool"])])
    ELSE ValidationError

\* a text validated as an int in lax mode: the characters of White_Space
\* are trimmed, then a sign may come, then comes a digit group, then may
\* come a decimal point followed by at least one zero and zeros only; every
\* other text is refused
int_from_str(s) ==
    LET q == rstrip_of(lstrip_of(s, White_Space), White_Space)
        signed == Len(q) > 0 /\ q[1] \in {ord("+"), ord("-")}
        body == IF signed THEN Tail(q) ELSE q
        dot == IF \E i \in 1..Len(body) : body[i] = ord(".")
               THEN CHOOSE i \in 1..Len(body) :
                        body[i] = ord(".") /\ \A j \in 1..(i - 1) : body[j] # ord(".")
               ELSE Len(body) + 1
        whole == SubSeq(body, 1, dot - 1)
        fraction == SubSeq(body, dot + 1, Len(body))
    IN  IF /\ IsDigitGroup(whole)
           /\ dot > Len(body) \/ Len(fraction) > 0
           /\ \A i \in 1..Len(fraction) : fraction[i] = ord("0")
        THEN Num(IF signed /\ q[1] = ord("-") THEN 0 - DigitsValue(whole, 0)
                 ELSE DigitsValue(whole, 0))
        ELSE ValidationError

\* int | None = None, validated in lax mode: a numeric string and a float
\* without fractional part become the int, a float with one is refused
OptInt(v) ==
    CASE v.t \in {"None", "int"} -> v
      [] v.t = "str" -> int_from_str(v.s)
      [] v.t = "float" -> IF v.h = 0 THEN Num(v.w) ELSE ValidationError
      [] OTHER -> ValidationError

\* sort: list[dict[str, Union[str, dict[str, ValueType]]]] | None = None
SortField(v) ==
    IF v.t = "None" THEN None
    ELSE IF v.t = "list"
            /\ \A i \in 1..Len(v.l) :
                  /\ v.l[i].t = "dict"
                  /\ \A k \in DOMAIN v.l[i].d :
                        v.l[i].d[k].t = "str" \/ IsValueDict(v.l[i].d[k])
    THEN v
    ELSE ValidationError

\* aggs: dict[str, Any] | None = None
AggsField(v) == IF v.t \in {"None", "dict"} THEN v ELSE ValidationError

\* from_ read under its alias only, as without populate_by_name
FromInputAliasOnly(v) == Get(v, "from")

\* from_: int | None = Field(None, alias="from"), with populate_by_name
FromInput(v) == IF "from" \in DOMAIN v.d THEN v.d["from"] ELSE Get(v, "from_")

\* class ElasticsearchQuery
ElasticsearchQuery(v) ==
    IF /\ v.t = "dict"
       /\ "query" \in DOMAIN v.d
       /\ ~IsError(BoolQuery(v.d["query"]))
       /\ ~IsError(SortField(Get(v, "sort")))
       /\ ~IsError(OptInt(FromInput(v)))
       /\ ~IsError(OptInt(Get(v, "size")))
       /\ ~IsError(AggsField(Get(v, "aggs")))
    THEN Instance("ElasticsearchQuery",
                  [query |-> BoolQuery(v.d["query"]),
                   sort |-> Get(v, "sort"),
                   from_ |-> OptInt(FromInput(v)),
                   size |-> OptInt(Get(v, "size")),
                   aggs |-> Get(v, "aggs")])
    ELSE ValidationError

\* class AnswerOrESQuery: answer: str | None, es_query: ElasticsearchQuery | None
AnswerOrESQuery(v) ==
    IF /\ v.t = "dict"
       /\ Get(v, "answer").t \in {"None", "str"}
       /\ \/ Get(v, "es_query").t = "None"
          \/ ~IsError(ElasticsearchQuery(Get(v, "es_query")))
    THEN Instance("AnswerOrESQuery",
                  [answer |-> Get(v, "answer"),
                   es_query |-> IF Get(v, "es_query").t = "None" THEN None
                                ELSE ElasticsearchQuery(Get(v, "es_query"))])
    ELSE ValidationError

(***************************************************************************)
(* Serialisation and null-pruning.                                         *)
(***************************************************************************)
\* model_dump(exclude_none=True): fields holding None are left out
RECURSIVE model_dump_exclude_none(_)
model_dump_exclude_none(v) ==
    CASE v.t = "model" ->
            Dict([k \in {x \in DOMAIN v.f : v.f[x] # None} |->
                     model_dump_exclude_none(v.f[k])])
      [] v.t = "dict" -> Dict([k \in DOMAIN v.d |-> model_dump_exclude_none(v.d[k])])
      [] v.t = "list" ->
            List([i \in 1..Len(v.l) |-> model_dump_exclude_none(v.l[i])])
      [] OTHER -> v

\* BaseModel.model_dump(): every field under its field name (not its alias),
\* None included, nested instances dumped recursively
RECURSIVE model_dump(_)
model_dump(v) ==
    CASE v.t = "model" -> Dict([k \in DOMAIN v.f |-> model_dump(v.f[k])])
      [] v.t = "dict" -> Dict([k \in DOMAIN v.d |-> model_dump(v.d[k])])
      [] v.t = "list" -> List([i \in 1..Len(v.l) |-> model_dump(v.l[i])])
      [] OTHER -> v

\* the items that are not None, last one first
RECURSIVE NotNoneItemsReversed(_)
NotNoneItemsReversed(q) ==
    IF Len(q) = 0 THEN <<>>
    ELSE IF Head(q) = None THEN NotNoneItemsReversed(Tail(q))
    ELSE NotNoneItemsReversed(Tail(q)) \o <<Head(q)>>

\* [f(item) for item in q if item is not None], order kept
RECURSIVE NotNoneItems(_)
NotNoneItems(q) ==
    IF Len(q) = 0 THEN <<>>
    ELSE IF Head(q) = None THEN NotNoneItems(Tail(q))
    ELSE <<Head(q)>> \o NotNoneItems(Tail(q))

\* clean_dict without the recursive calls: only the outermost dict is pruned
clean_dict_shallow(d) ==
    IF d.t = "dict"
    THEN Dict([k \in {x \in DOMAIN d.d : d.d[x] # None} |-> d.d[k]])
    ELSE d

\* clean_dict that also drops a value that arrives as an empty dict or list
RECURSIVE clean_dict_drop_empty(_)
clean_dict_drop_empty(d) ==
    CASE d.t = "dict" ->
            Dict([k \in {x \in DOMAIN d.d : d.d[x] \notin {None, Dict(<<>>), List(<<>>)}}
                     |-> clean_dict_drop_empty(d.d[k])])
      [] d.t = "list" ->
            List([i \in 1..Len(NotNoneItems(d.l)) |-> clean_dict_drop_empty(NotNoneItems(d.l)[i])])
      [] OTHER -> d

\* clean_dict with "if v" in place of "if v is not None" for dict values
RECURSIVE clean_dict_if_truthy(_)
clean_dict_if_truthy(d) ==
    CASE d.t = "dict" ->
            Dict([k \in {x \in DOMAIN d.d : Truthy(d.d[x])} |-> clean_dict_if_truthy(d.d[k])])
      [] d.t = "list" ->
            List([i \in 1..Len(NotNoneItems(d.l)) |-> clean_dict_if_truthy(NotNoneItems(d.l)[i])])
      [] OTHER -> d

\* clean_dict, the local function of transform
RECURSIVE clean_dict(_)
clean_dict(d) ==
    CASE d.t = "dict" ->
            Dict([k \in {x \in DOMAIN d.d : d.d[x] # None} |-> clean_dict(d.d[k])])
      [] d.t = "list" ->
            List([i \in 1..Len(NotNoneItems(d.l)) |-> clean_dict(NotNoneItems(d.l)[i])])
      [] OTHER -> d

(***************************************************************************)
(* The model provider's output and the output parser.  The text of a       *)
(* completion is represented by the JSON document it spells, or by NotJson *)
(* when it spells none.                                                    *)
(***************************************************************************)
NotJson == [t |-> "NotJson"]
Completion(j) == [t |-> "AIMessage", content |-> j]

\* an exception, by the name of its class and the names of the classes that
\* class derives from (itself included, as in its method resolution order)
Raised(type, bases) == [t |-> "exception", type |-> type, mro |-> {type} \cup bases]

\* an exception of a class that derives directly from Exception
Exception(type) == Raised(type, {"Exception", "BaseException"})
\* langchain_core's OutputParserException(ValueError, LangChainException)
OutputParserException ==
    Raised("OutputParserException",
           {"ValueError", "LangChainException", "Exception", "BaseException"})
TypeError == Exception("TypeError")

\* os.getenv(key, default): a key that is not a string is a TypeError; the
\* key is encoded for the environment (UTF-8 with surrogateescape) before it
\* is looked up, which raises UnicodeEncodeError for a surrogate code point
\* other than U+DC80 to U+DCFF
getenv(env, key, default) ==
    IF key.t # "str" THEN TypeError
    ELSE IF \E i \in 1..Len(key.s) :
               /\ key.s[i] >= 55296 /\ key.s[i] <= 57343
               /\ ~(key.s[i] >= 56448 /\ key.s[i] <= 56575)
    THEN Raised("UnicodeEncodeError",
                {"UnicodeError", "ValueError", "Exception", "BaseException"})
    ELSE LET set == {k \in DOMAIN env : Chars(k) = key.s /\ env[k] # None}
         IN  IF set = {} THEN default ELSE env[CHOOSE k \in set : TRUE]

\* a parser that prunes None from the decoded document before validating it
parse_pruned(text) ==
    IF text = NotJson THEN OutputParserException
    ELSE IF IsError(AnswerOrESQuery(clean_dict(text))) THEN OutputParserException
    ELSE AnswerOrESQuery(clean_dict(text))

\* PydanticOutputParser.parse(text): JSON decoding, then AnswerOrESQuery
\* validation; either failure is an OutputParserException
parse(text) ==
    IF text = NotJson THEN OutputParserException
    ELSE IF IsError(AnswerOrESQuery(text)) THEN OutputParserException
    ELSE AnswerOrESQuery(text)

(***************************************************************************)
(* Bounds and the inputs drawn within them.                                *)
(***************************************************************************)
\* longest predicate list the model provider puts under one bool clause
MaxLen == 2
\* requests served by one process
MaxCalls == 2

\* user texts, as sequences of characters: empty, blank (a space and a tab),
\* plain (and a word that ends a command-line loop), padded (a tab before, a
\* carriage return after)
Texts == {Chars(""), Chars(" \t"), Chars("Q"), Chars("\ta\r")}

Absent == [t |-> "absent"]
\* a JSON object that leaves out the keys bound to Absent
Obj(f) == Dict([k \in {x \in DOMAIN f : f[x] # Absent} |-> f[k]])

Term(f, v) == Dict("term" :> Dict(f :> v))
Match(f, v) == Dict("match" :> Dict(f :> v))
Range(f, b) == Dict("range" :> Dict(f :> Dict(b)))
NoBounds == [k \in {} |-> None]

\* a dividend yield of 0.03 is a float, the other bounds are ints
Preds ==
    { Term("currency.keyword", Str("EUR")),
      Term("esg_rating", Str("AAA")),
      Range("div_yield_ttm", "gte" :> Float(0, 3)),
      Range("debt_equity_latest", NoBounds) }

PredLists == UNION {[1..n -> Preds] : n \in 0..MaxLen}

\* predicate lists the product above leaves out
ExtraLists ==
    { <<Term("equity_sector.keyword", Str("TECHNOLOGY"))>>,
      <<Term("equity_sector.keyword", Str("BANANAS"))>>,
      <<Term("currency.keyword", Str("EUR")),
        Term("equity_sector.keyword", Str("BANANAS"))>>,
      <<Match("description", Str("bank"))>>,
      <<Term("currency.keyword", Str("EUR")),
        Term("equity_industry.keyword", Str("Banks")),
        Range("div_yield_ttm", "gte" :> Float(0, 3))>>,
      <<Range("analyst_upward_potential", "gt" :> Num(0))>>,
      <<Term("size_label.keyword", Str("HUGE"))>>,
      <<Match("currency", Str("EUR"))>>,
      <<Range("description", "gte" :> Num(1))>>,
      <<Range("market_cap", "above" :> Num(1))>>,
      <<Range("market_cap", ("gte" :> Num(1)) @@ ("lte" :> Num(9)))>>,
      <<Dict("exists" :> Dict("field" :> Str("isin")))>>,
      <<None, Term("currency.keyword", Str("EUR"))>>,
      <<Term("currency.keyword", None)>> }

Clauses ==
    {EmptyDict, Dict([c \in ClauseNames |-> None])}
    \cup {Dict("filter" :> List(q)) : q \in PredLists \cup ExtraLists}
    \cup {Dict(c :> List(q)) : c \in ClauseNames, q \in {x \in PredLists : Len(x) <= 1}}
    \cup {Dict(c :> None) : c \in ClauseNames}
    \cup {Dict(("must" :> List(<<Match("description", Str("bank"))>>))
               @@ ("filter" :> List(q))) : q \in {x \in PredLists : Len(x) <= 1}}
    \cup {Dict("filter" :> Str("all"))}

BoolOf(c) == "query" :> Dict("bool" :> c)
BaseQuery == BoolOf(Dict("filter" :> List(<<Term("currency.keyword", Str("EUR"))>>)))

EsQueries ==
    {Absent, None, Str("none"), EmptyDict, Dict("query" :> EmptyDict),
     Dict("query" :> None)}
    \cup {Dict(BoolOf(c)) : c \in Clauses}
    \cup {Dict(BaseQuery @@ o) :
            o \in { "from" :> Num(10), "from_" :> Num(10), "size" :> Num(5),
                    "size" :> Str("many"), "size" :> None, "size" :> Str(" 05"),
                    "size" :> Float(5, 0), "size" :> Float(2, 50),
                    "sort" :> List(<<Dict("market_cap" :> Str("desc"))>>),
                    "sort" :> Str("market_cap"),
                    "aggs" :> Dict("sectors" :> Dict("terms" :> Str("equity_sector"))),
                    ("from" :> Num(0)) @@ ("size" :> Num(5)) @@ ("track" :> Str("x")) }}

Answers == {Absent, None, Str(""), Str("Searching for banks"), Num(1)}

\* the documents a completion can spell
Documents ==
    {Obj([answer |-> a, es_query |-> q]) :
        a \in Answers,
        q \in {Absent, None, Dict(BoolOf(EmptyDict)), Dict(BaseQuery)}}
    \cup {Obj([answer |-> Str("Searching for banks"), es_query |-> q]) : q \in EsQueries}
    \cup {List(<<>>), Str("I cannot help with that")}

Contents == {NotJson} \cup Documents

\* what llm.invoke can raise: subclasses of Exception, of the provider's
\* client library and of Python itself
ProviderErrors ==
    { Raised("APIConnectionError", {"APIError", "OpenAIError", "Exception", "BaseException"}),
      Raised("RateLimitError",
             {"APIStatusError", "APIError", "OpenAIError", "Exception", "BaseException"}),
      Exception("ValueError"),
      Raised("TimeoutError", {"OSError", "Exception", "BaseException"}) }

(***************************************************************************)
(* State.                                                                  *)
(***************************************************************************)
VARIABLES
    pc,                  \* where the request being served stands
    caller,              \* which entry point is serving it
    transformer,         \* the QueryTransformer the entry point holds
    natural_query,       \* transform's argument, a sequence of characters
    messages,            \* what transform hands to llm.invoke
    raw_response,        \* what llm.invoke returned
    result,              \* the parsed AnswerOrESQuery instance
    exc,                 \* the exception in flight inside transform
    response,            \* the value transform returned
    invocations,         \* llm.invoke calls made by the current transform call
    log,                 \* ERROR records emitted since the request began
    spans,               \* tracer.spans, of the global PerformanceTracer
    current_request_id,  \* tracer.current_request_id
    es_payload,          \* the argument send_to_elasticsearch was called with
    outcome,             \* how the request ended for the caller
    calls,               \* requests begun so far
    structure,           \* a nested structure handed to clean_dict on its own
    cleaned,             \* what clean_dict made of it, pass after pass
    t_pc,                \* where each concurrent request stands
    t_request_id,        \* the id the request last started a trace under, if any
    t_created,           \* how many spans the request's transform call has opened
    t_open,              \* whether the span it opened last is still open
    t_summary,           \* what get_trace_summary returned to the request
    t_spans,             \* the list get_trace_summary is going through, if any
    shared_spans,        \* tracer.spans, as the concurrent requests share it
    shared_request_id,   \* tracer.current_request_id, as they share it
    prompts,             \* the messages handed to llm.invoke so far, by input text
    provider,            \* get_llm's argument provider
    model,               \* get_llm's argument model
    environ,             \* os.environ: each variable's value, None when unset
    llm                  \* what get_llm returned or raised

\* the state of request serving
request == <<pc, caller, transformer, natural_query, messages, raw_response, result, exc, response,
             invocations, log, spans, current_request_id, es_payload, outcome, calls>>
\* the state of clean_dict applied on its own
pruning == <<structure, cleaned>>

\* the state of requests served concurrently
threads == <<t_pc, t_request_id, t_created, t_open, t_summary, t_spans, shared_spans,
             shared_request_id>>
\* what request serving leaves alone
\* the state of model-client construction
config == <<provider, model, environ, llm>>
\* what request serving leaves alone
apart == <<pruning, threads, prompts, config>>

vars == <<request, pruning, threads, prompts, config>>

NotSent == [t |-> "not_sent"]

InitRequest ==
    /\ pc = "idle"
    /\ caller = "none"
    /\ transformer = None
    /\ natural_query = <<>>
    /\ messages = <<>>
    /\ raw_response = None
    /\ result = None
    /\ exc = None
    /\ response = None
    /\ invocations = 0
    /\ log = <<>>
    /\ spans = <<>>
    /\ current_request_id = None
    /\ es_payload = NotSent
    /\ outcome = "none"
    /\ calls = 0

\* the longest list in a structure handed to clean_dict
MaxItems == 2
\* the requests served at the same time, by the request id each would set
Threads == {"req_1", "req_2"}

InitPruning ==
    /\ structure = None
    /\ cleaned = <<>>

InitThreads ==
    /\ t_pc = [t \in Threads |-> "idle"]
    /\ t_request_id = [t \in Threads |-> None]
    /\ t_created = [t \in Threads |-> 0]
    /\ t_open = [t \in Threads |-> FALSE]
    /\ t_summary = [t \in Threads |-> None]
    /\ t_spans = [t \in Threads |-> None]
    /\ shared_spans = <<>>
    /\ shared_request_id = None

\* the environment variables the configuration reads
EnvVars == {"OPENAI_API_KEY", "ANTHROPIC_API_KEY", "GOOGLE_API_KEY", "LLM_PROVIDER",
            "LLM_MODEL"}

NotCalled == [t |-> "not_called"]

\* the environment in which the requests are served: the default provider,
\* its key set
InitConfig ==
    /\ provider = Str("openai")
    /\ model = None
    /\ environ = [v \in EnvVars |-> IF v = "OPENAI_API_KEY" THEN Str("sk") ELSE None]
    /\ llm = NotCalled

Init ==
    /\ InitRequest
    /\ InitPruning
    /\ InitThreads
    /\ InitConfig
    /\ prompts = {}

(***************************************************************************)
(* The tracer.  A span is its name, whether finish() has set its end_time, *)
(* and the names of the metadata it was created with.                      *)
(***************************************************************************)
\* PerformanceTracer.create_span
create_span(s, name, metadata) ==
    Append(s, [name |-> name, finished |-> FALSE, metadata |-> metadata])

\* leaving a block without finishing its span, as trace without `finally`
leave_open(s, i) == s

\* TraceSpan.finish, on the span at position i
finish(s, i) == [s EXCEPT ![i].finished = TRUE]

\* PerformanceTracer.trace around a block that runs to its end in one step
trace(s, name, metadata) == finish(create_span(s, name, metadata), Len(s) + 1)

(***************************************************************************)
(* The messages.                                                           *)
(***************************************************************************)
\* class Settings: its attributes are read from the environment when the
\* module is loaded (LLM_TEMPERATURE is not set in the environments drawn)
Settings ==
    [LLM_PROVIDER |-> getenv(environ, Str("LLM_PROVIDER"), Str("openai")),
     MODEL_NAME |-> getenv(environ, Str("LLM_MODEL"), Str("gpt-4o-mini")),
     TEMPERATURE |-> Float(0, 0)]

\* QueryTransformer(settings): what __init__ leaves in the instance, the
\* chat model apart
QueryTransformer(settings) ==
    Instance("QueryTransformer",
             [settings |-> settings,
              output_parser |-> [pydantic_object |-> "AnswerOrESQuery"]])

\* PydanticOutputParser.get_format_instructions: a fixed text around the
\* JSON schema of the parser's class
get_format_instructions(parser) == [schema |-> parser.pydantic_object]

\* a system message that names the model it is meant for
SystemMessageNamingModel(self) ==
    [type |-> "system",
     content |-> <<"Your task is to translate a user prompt into a valid Elasticsearch query.",
                   self.f.settings.MODEL_NAME,
                   get_format_instructions(self.f.output_parser)>>]

\* the system message: the fixed text of task, mapping and rules, by its
\* first line, then the format instructions
SystemMessage(self) ==
    [type |-> "system",
     content |-> <<"Your task is to translate a user prompt into a valid Elasticsearch query.",
                   get_format_instructions(self.f.output_parser)>>]

\* the fixed texts of the user message
UserTexts ==
    <<Chars("Query: \""),
      Chars("\"\n\nTransform this into an appropriate Elasticsearch query or provide an answer if it's a question.")>>

\* the user message: the query between the fixed texts
HumanMessage(q) == [type |-> "human", content |-> UserTexts[1] \o q \o UserTexts[2]]

(***************************************************************************)
(* transform, step by step.                                                *)
(***************************************************************************)
\* a failure value that names the exception it stands for
FailureResultNamingError == Dict([answer |-> Str(exc.type), es_query |-> None])

\* the value the except clause of transform returns
FailureResult ==
    Dict([answer |-> Str("Sorry, I couldn't process your query."), es_query |-> None])

\* `except OutputParserException`: a clause that lets provider errors through
CatchesParseErrorsOnly(e) == e.type = "OutputParserException"

\* an except clause that catches nothing
CatchesNothing(e) == FALSE

\* `except Exception`: the clause catches every exception whose class is
\* Exception or derives from it
Catches(e) == "Exception" \in e.mro

\* a parse failure that asks the provider again instead of raising
OnParseErrorRetry == "api_call"

\* `raise parse_error`: where control goes after a parse failure
OnParseError == "except"

\* the whole dump pruned of None, not only its es_query
ResultDictCleaned(r) == clean_dict(model_dump(r))

\* the dictionary transform returns on the success path
ResultDict(r) ==
    LET result_dict == model_dump(r) IN
    IF Truthy(Get(result_dict, "es_query"))
    THEN Dict([result_dict.d EXCEPT !["es_query"] = clean_dict(@)])
    ELSE result_dict

\* every entry point is a process of its own, with its own tracer: the
\* requests of one process come from one entry point, only the Dash server
\* goes on serving after a request ended in an uncaught exception, and a
\* command-line loop that was told to quit serves no more
SameProcess(c) ==
    /\ caller \in {"none", c}
    /\ outcome = "exception" => c = "app"
    /\ outcome # "quit"

\* entry of transform, on behalf of caller c that holds the transformer self
Enter(c, self, q) ==
    /\ calls < MaxCalls
    /\ pc = "idle"
    /\ SameProcess(c)
    /\ pc' = "transform"
    /\ caller' = c
    /\ transformer' = self
    /\ natural_query' = q
    /\ messages' = <<>>
    /\ raw_response' = None
    /\ result' = None
    /\ exc' = None
    /\ response' = None
    /\ invocations' = 0
    /\ log' = <<>>
    /\ es_payload' = NotSent
    /\ outcome' = "pending"
    /\ calls' = calls + 1
    /\ UNCHANGED apart

\* a caller turns the input away before transform is called
Reject(c, self, q) ==
    /\ calls < MaxCalls
    /\ pc = "idle"
    /\ SameProcess(c)
    /\ caller' = c
    /\ transformer' = self
    /\ natural_query' = q
    /\ messages' = <<>>
    /\ raw_response' = None
    /\ result' = None
    /\ exc' = None
    /\ response' = None
    /\ invocations' = 0
    /\ log' = <<>>
    /\ es_payload' = NotSent
    /\ outcome' = "rejected"
    /\ calls' = calls + 1
    /\ UNCHANGED <<pc, spans, current_request_id>>
    /\ UNCHANGED apart

\* user_query.lower() in ['quit', 'exit', 'q'], of the stripped line
IsQuit(line) == lower(strip(line)) \in {Chars("quit"), Chars("exit"), Chars("q")}

\* a command-line loop reads a word that ends it: break
Quit(c, self) ==
    /\ pc = "idle"
    /\ SameProcess(c)
    /\ caller' = c
    /\ transformer' = self
    /\ outcome' = "quit"
    /\ UNCHANGED <<pc, natural_query, messages, raw_response, result, exc, response,
                   invocations, log, spans, current_request_id, es_payload, calls>>
    /\ UNCHANGED apart

\* with trace_operation("llm_prompt_preparation"): build the two messages
PromptPreparation ==
    /\ pc = "transform"
    /\ spans' = trace(spans, "llm_prompt_preparation", {"query_length", "model"})
    /\ messages' = <<SystemMessage(transformer), HumanMessage(natural_query)>>
    /\ pc' = "api_call"
    /\ UNCHANGED <<caller, transformer, natural_query, raw_response, result, exc, response,
                   invocations, log, current_request_id, es_payload, outcome, calls>>
    /\ UNCHANGED apart

\* with trace_operation("llm_api_call"): self.llm.invoke is called
Invoke ==
    /\ pc = "api_call"
    /\ spans' = create_span(spans, "llm_api_call", {"model", "provider", "query_preview"})
    /\ invocations' = invocations + 1
    /\ pc' = "invoking"
    /\ UNCHANGED <<caller, transformer, natural_query, messages, raw_response, result, exc, response,
                   log, current_request_id, es_payload, outcome, calls>>

InvokeModel ==
    /\ Invoke
    /\ UNCHANGED apart

\* the same step, with the argument of llm.invoke kept on record
InvokeModelOnRecord ==
    /\ Invoke
    /\ prompts' = prompts \cup {[query |-> natural_query, messages |-> messages,
                                  self |-> transformer, calls |-> calls]}
    /\ UNCHANGED <<pruning, threads, config>>

\* llm.invoke returns a completion
ProviderReturns ==
    /\ pc = "invoking"
    /\ \E content \in Contents : raw_response' = Completion(content)
    /\ pc' = "parse"
    /\ UNCHANGED <<caller, transformer, natural_query, messages, result, exc, response, invocations,
                   log, spans, current_request_id, es_payload, outcome, calls>>
    /\ UNCHANGED apart

\* llm.invoke raises: the trace block finishes its span on the way out
ProviderRaises ==
    /\ pc = "invoking"
    /\ \E e \in ProviderErrors : exc' = e
    /\ spans' = finish(spans, Len(spans))
    /\ pc' = "except"
    /\ UNCHANGED <<caller, transformer, natural_query, messages, raw_response, result, response,
                   invocations, log, current_request_id, es_payload, outcome, calls>>
    /\ UNCHANGED apart

\* self.output_parser.parse(raw_response.content) and the inner except clause
ParseOutput ==
    /\ pc = "parse"
    /\ spans' = finish(spans, Len(spans))
    /\ IF parse(raw_response.content) = OutputParserException
       THEN /\ log' = log \o <<[level |-> "ERROR", msg |-> "Parsing error",
                                shows |-> {"parse_error"}],
                               [level |-> "ERROR", msg |-> "Raw response was",
                                shows |-> {"raw_response.content"}]>>
            /\ exc' = OutputParserException
            /\ pc' = OnParseError
            /\ UNCHANGED result
       ELSE /\ result' = parse(raw_response.content)
            /\ pc' = "response_parsing"
            /\ UNCHANGED <<log, exc>>
    /\ UNCHANGED <<caller, transformer, natural_query, messages, raw_response, response, invocations,
                   current_request_id, es_payload, outcome, calls>>
    /\ UNCHANGED apart

\* with trace_operation("llm_response_parsing"): dump, prune, return
ResponseParsing ==
    /\ pc = "response_parsing"
    /\ spans' = trace(spans, "llm_response_parsing", {"has_es_query"})
    /\ response' = ResultDict(result)
    /\ pc' = "returned"
    /\ UNCHANGED <<caller, transformer, natural_query, messages, raw_response, result, exc,
                   invocations, log, current_request_id, es_payload, outcome, calls>>
    /\ UNCHANGED apart

\* the except clause of transform
ExceptClause ==
    /\ pc = "except"
    /\ IF Catches(exc)
       THEN /\ log' = log \o <<[level |-> "ERROR", msg |-> "Error in query transformation",
                                shows |-> {"e"}],
                               [level |-> "ERROR", msg |-> "Error details",
                                shows |-> {"type(e).__name__", "str(e)"}]>>
            /\ response' = FailureResult
            /\ pc' = "returned"
       ELSE /\ pc' = "propagated"
            /\ UNCHANGED <<log, response>>
    /\ UNCHANGED <<caller, transformer, natural_query, messages, raw_response, result, exc,
                   invocations, spans, current_request_id, es_payload, outcome, calls>>
    /\ UNCHANGED apart

(***************************************************************************)
(* The index client and the callers of transform.                          *)
(***************************************************************************)
\* what the HTTP request to the index can end in: an exception of
\* requests.post or raise_for_status, an answer that is not JSON, an answer
\* that is the JSON document body.  The documents: a hit with score and
\* source, no hit, a hit of a search that asked for no source, a hit of a
\* sorted search (its score is null), a hit whose metric is a string, an
\* answer without hits, and a document that is not an object
EsOutcomes ==
    LET Found(hit) == Dict("hits" :> Dict("hits" :> List(hit)))
        source == Dict(("name" :> Str("ING")) @@ ("roe_ttm" :> Float(0, 12)))
        bodies ==
        { Found(<<Dict(("_score" :> Float(1, 50)) @@ ("_source" :> source))>>),
          Found(<<>>),
          Found(<<Dict("_score" :> Float(1, 50))>>),
          Found(<<Dict(("_score" :> None) @@ ("_source" :> source))>>),
          Found(<<Dict(("_score" :> Num(1))
                       @@ ("_source" :> Dict("roe_ttm" :> Str("n/a"))))>>),
          Dict("took" :> Num(1)),
          List(<<Num(1)>>) }
    IN  {[kind |-> k, body |-> None] : k \in {"error", "bad_json"}}
            \cup {[kind |-> "json", body |-> b] : b \in bodies}

\* query.get('query', {}).keys(), an argument of the first trace_operation
\* call: evaluated before the first span is created and outside the try, it
\* raises AttributeError unless query is a dict whose 'query', when present,
\* is a dict
QueryTypeRaises(query) ==
    \/ query.t # "dict"
    \/ "query" \in DOMAIN query.d /\ query.d["query"].t # "dict"

\* send_to_elasticsearch up to the call of requests.post: the request
\* preparation is traced and the span of the HTTP request is open
es_request(s, query) ==
    IF QueryTypeRaises(query)
    THEN [raised |-> TRUE, spans |-> s]
    ELSE [raised |-> FALSE,
          spans |-> create_span(trace(s, "elasticsearch_request_preparation",
                                      {"query_size", "query_type"}),
                                "elasticsearch_http_request", {"url", "query_complexity"})]

\* send_to_elasticsearch from the end of requests.post on, the span of the
\* HTTP request being the one at position i: the span is finished; an answer
\* is parsed under a third span, an exception (also of response.json()) is
\* caught and answered with None
es_response(s, i, es) ==
    IF es.kind = "error" THEN finish(s, i)
    ELSE trace(finish(s, i), "elasticsearch_response_parsing",
               {"status_code", "response_size"})

\* send_to_elasticsearch(query) from call to return
send_to_elasticsearch(s, query, es) ==
    LET sent == es_request(s, query) IN
    IF sent.raised THEN sent
    ELSE [raised |-> FALSE, spans |-> es_response(sent.spans, Len(sent.spans), es),
          results |-> es.body]

\* k in v, for a str k: "True", "False", or "TypeError" when v is no container
contains(v, k) ==
    CASE v.t = "dict" -> IF k \in DOMAIN v.d THEN "True" ELSE "False"
      [] v.t = "list" ->
            IF \E i \in 1..Len(v.l) : v.l[i] = Str(k) THEN "True" ELSE "False"
      [] v.t = "str" ->
            IF \E i \in 0..(Len(v.s) - Len(k)) : SubSeq(v.s, i + 1, i + Len(k)) = Chars(k)
            THEN "True" ELSE "False"
      [] OTHER -> "TypeError"

\* v[k], for a str k: the value, or the exception raised
getitem(v, k) ==
    IF v.t # "dict" THEN TypeError
    ELSE IF k \in DOMAIN v.d THEN v.d[k]
    ELSE Raised("KeyError", {"LookupError", "Exception", "BaseException"})

\* v.get(k, default): the value, or the exception raised when v has no such
\* method
get(v, k, default) ==
    IF v.t # "dict" THEN Exception("AttributeError")
    ELSE IF k \in DOMAIN v.d THEN v.d[k] ELSE default

\* for x in v[:n]: the list of the items the loop visits, which are the
\* first n items of a list and the first n characters of a str, or the
\* exception raised
slice(v, n) ==
    CASE v.t = "list" -> List(SubSeq(v.l, 1, IF Len(v.l) < n THEN Len(v.l) ELSE n))
      [] v.t = "str" ->
            List([i \in 1..(IF Len(v.s) < n THEN Len(v.s) ELSE n) |-> Text(<<v.s[i]>>)])
      [] OTHER -> TypeError

\* update_output makes the card of one hit: whether that raises.
\* f"{v:.2f}" and f"{v:.1%}" raise, and so does v > 0, unless v is a number
CardRaises(hit) ==
    LET source == getitem(hit, "_source")
        roe == get(source, "roe_ttm", None)
        div_yield == get(source, "div_yield_ttm", None)
        IsNumber(v) == v.t \in {"int", "float"}
    IN  \/ source.t # "dict"
        \/ Truthy(roe) /\ ~IsNumber(roe)
        \/ Truthy(div_yield) /\ ~IsNumber(div_yield)
        \/ ~IsNumber(getitem(hit, "_score"))

\* update_output handles what send_to_elasticsearch returned: whether that
\* raises
UpdateOutputRaises(results) ==
    LET inner == getitem(results, "hits")
        hits == slice(getitem(inner, "hits"), 5)
    IN  /\ Truthy(results)
        /\ \/ contains(results, "hits") = "TypeError"
           \/ /\ contains(results, "hits") = "True"
              /\ \/ contains(inner, "hits") = "TypeError"
                 \/ /\ contains(inner, "hits") = "True"
                    /\ \/ hits.t = "exception"
                       \/ \E i \in 1..Len(hits.l) : CardRaises(hits.l[i])

\* len(results.get('hits', {}).get('hits', [])) if results else 0: whether
\* that raises, as get does on what is no dict and len on what has no length
ResultCountRaises(results) ==
    /\ Truthy(results)
    /\ get(get(results, "hits", EmptyDict), "hits", List(<<>>)).t
           \notin {"dict", "list", "str"}

\* elastic_query.main prints what send_to_elasticsearch returned: whether
\* that raises
ElasticMainRaises(results) ==
    LET hits == slice(get(get(results, "hits", EmptyDict), "hits", List(<<>>)), 3)
    IN  \/ ResultCountRaises(results)
        \/ /\ Truthy(results)
           /\ \/ hits.t = "exception"
              \/ \E i \in 1..Len(hits.l) :
                    \/ getitem(hits.l[i], "_source").t # "dict"
                    \/ getitem(hits.l[i], "_score").t = "exception"

\* response["answer"] and response["es_query"] are indexed without a check
HasBothKeys(r) == r.t = "dict" /\ {"answer", "es_query"} \subseteq DOMAIN r.d

\* transform has come back to its caller, by return or by an exception that
\* no caller catches
BackInCaller == pc \in {"returned", "propagated"}

\* send_to_elasticsearch(query) is called: it raises at once, or goes as far
\* as requests.post and waits there for the index
SendToElasticsearch(s, query) ==
    LET sent == es_request(s, query) IN
    /\ es_payload' = query
    /\ spans' = sent.spans
    /\ outcome' = IF sent.raised THEN "exception" ELSE "pending"
    /\ pc' = IF sent.raised THEN "idle" ELSE "es_pending"

\* the tail shared by update_output and elastic_query.main: the query is sent
\* to the index whatever it is
SearchUnconditionally ==
    IF pc = "propagated" \/ ~HasBothKeys(response)
    THEN /\ outcome' = "exception"
         /\ pc' = "idle"
         /\ UNCHANGED <<spans, es_payload>>
    ELSE SendToElasticsearch(spans, response.d["es_query"])

\* app.update_output with an empty value: answered without calling transform
UpdateOutputEmpty ==
    \E value \in Texts : value = <<>> /\ Reject("app", transformer, value)

\* app.update_output up to the call of transform
UpdateOutput ==
    \E value \in Texts :
        /\ value # <<>>
        /\ Enter("app", QueryTransformer(Settings), value)
        /\ UNCHANGED <<spans, current_request_id>>

\* app.update_output after transform returned
UpdateOutputSearch ==
    /\ BackInCaller
    /\ caller = "app"
    /\ SearchUnconditionally
    /\ UNCHANGED <<caller, transformer, natural_query, messages, raw_response, result, exc, response,
                   invocations, log, current_request_id, calls>>
    /\ UNCHANGED apart

\* elastic_query.main: a line that tells the loop to end
ElasticMainQuit ==
    \E line \in Texts : IsQuit(line) /\ Quit("elastic_query", QueryTransformer(Settings))

\* elastic_query.main: a line that is empty once stripped
ElasticMainEmpty ==
    \E line \in Texts : strip(line) = <<>> /\ Reject("elastic_query", QueryTransformer(Settings), strip(line))

\* elastic_query.main up to the call of transform
ElasticMain ==
    \E line \in Texts :
        /\ ~IsQuit(line)
        /\ strip(line) # <<>>
        /\ Enter("elastic_query", QueryTransformer(Settings), strip(line))
        /\ UNCHANGED <<spans, current_request_id>>

\* elastic_query.main after transform returned
ElasticMainSearch ==
    /\ BackInCaller
    /\ caller = "elastic_query"
    /\ SearchUnconditionally
    /\ UNCHANGED <<caller, transformer, natural_query, messages, raw_response, result, exc, response,
                   invocations, log, current_request_id, calls>>
    /\ UNCHANGED apart

\* query_transformer.main: a line that tells the loop to end
TransformerMainQuit ==
    \E line \in Texts : IsQuit(line) /\ Quit("query_transformer", QueryTransformer(Settings))

\* query_transformer.main: a line that is empty once stripped
TransformerMainEmpty ==
    \E line \in Texts : strip(line) = <<>> /\ Reject("query_transformer", QueryTransformer(Settings), strip(line))

\* query_transformer.main up to the call of transform
TransformerMain ==
    \E line \in Texts :
        /\ ~IsQuit(line)
        /\ strip(line) # <<>>
        /\ Enter("query_transformer", QueryTransformer(Settings), strip(line))
        /\ UNCHANGED <<spans, current_request_id>>

\* query_transformer.main after transform returned: prints both entries
TransformerMainPrint ==
    /\ BackInCaller
    /\ caller = "query_transformer"
    /\ outcome' = IF pc = "returned" /\ HasBothKeys(response) THEN "result"
                  ELSE "exception"
    /\ pc' = "idle"
    /\ UNCHANGED <<caller, transformer, natural_query, messages, raw_response, result, exc, response,
                   invocations, log, spans, current_request_id, es_payload, calls>>
    /\ UNCHANGED apart

\* f"test_iter_{i+1}", by the number i + 1
TestIter(n) == Str("test_iter_" \o ToString(n))

\* test_query_performance(sys.argv[2], iterations), first iteration, up to
\* the call of transform: start_request_trace names the request and empties
\* the span list
TestQueryPerformance ==
    \E query \in Texts :
        /\ Enter("test_performance", QueryTransformer(Settings), query)
        /\ current_request_id' = TestIter(1)
        /\ spans' = <<>>

\* test_query_performance, a further iteration of its loop: the same query
\* under the next number
TestQueryPerformanceAgain ==
    \E n \in 1..MaxCalls :
        /\ caller = "test_performance"
        /\ outcome = "result"
        /\ current_request_id = TestIter(n)
        /\ Enter("test_performance", QueryTransformer(Settings), natural_query)
        /\ current_request_id' = TestIter(n + 1)
        /\ spans' = <<>>

\* test_performance.main in interactive mode: a line that tells the loop to end
TestInteractiveQuit ==
    \E line \in Texts : IsQuit(line) /\ Quit("test_interactive", transformer)

\* test_performance.main in interactive mode: test_query_performance(query, 1)
\* for a line that is not empty once stripped, up to the call of transform;
\* every line is iteration 1 of a call of its own
TestInteractive ==
    \E line \in Texts :
        /\ ~IsQuit(line)
        /\ strip(line) # <<>>
        /\ Enter("test_interactive", QueryTransformer(Settings), strip(line))
        /\ current_request_id' = TestIter(1)
        /\ spans' = <<>>

\* the query is sent only when response.get('es_query') is truthy
SearchIfQuery ==
    IF pc = "propagated"
    THEN /\ outcome' = "exception"
         /\ pc' = "idle"
         /\ UNCHANGED <<spans, es_payload>>
    ELSE IF Truthy(Get(response, "es_query"))
    THEN SendToElasticsearch(spans, Get(response, "es_query"))
    ELSE /\ outcome' = "result"
         /\ pc' = "idle"
         /\ UNCHANGED <<spans, es_payload>>

\* test_query_performance after transform returned
TestQueryPerformanceSearch ==
    /\ BackInCaller
    /\ caller \in {"test_performance", "test_interactive"}
    /\ SearchIfQuery
    /\ UNCHANGED <<caller, transformer, natural_query, messages, raw_response, result, exc, response,
                   invocations, log, current_request_id, calls>>
    /\ UNCHANGED apart

\* test_component_isolation up to the call of transform
TestComponentIsolation ==
    /\ caller = "none"
    /\ Enter("test_components", QueryTransformer(Settings),
             Chars("European technology companies with high growth"))
    /\ current_request_id' = Str("component_test")
    /\ spans' = <<>>

\* test_component_isolation after transform returned: when there is a query,
\* a second trace is started and the query is sent under it
TestComponentIsolationSearch ==
    /\ BackInCaller
    /\ caller = "test_components"
    /\ IF pc = "propagated"
       THEN /\ outcome' = "exception"
            /\ pc' = "idle"
            /\ UNCHANGED <<spans, es_payload, current_request_id>>
       ELSE IF Truthy(Get(response, "es_query"))
       THEN /\ current_request_id' = Str("elasticsearch_only")
            /\ SendToElasticsearch(<<>>, response.d["es_query"])
       ELSE /\ outcome' = "result"
            /\ pc' = "idle"
            /\ UNCHANGED <<spans, es_payload, current_request_id>>
    /\ UNCHANGED <<caller, transformer, natural_query, messages, raw_response, result, exc, response,
                   invocations, log, calls>>
    /\ UNCHANGED apart

\* the models benchmark_models tests
models_to_test == <<"gpt-4o-mini", "gpt-3.5-turbo">>

\* benchmark_models, one pass of its loop up to the call of transform
BenchmarkModels ==
    /\ calls < Len(models_to_test)
    /\ Enter("benchmark",
             QueryTransformer([Settings EXCEPT !.MODEL_NAME = Str(models_to_test[calls + 1])]),
             Chars("Large dividend paying stocks in Europe"))
    /\ current_request_id' = Str("model_test_" \o models_to_test[calls + 1])
    /\ spans' = <<>>

\* benchmark_models after transform returned: an Exception raised by
\* send_to_elasticsearch is caught and printed, and the loop goes on
BenchmarkModelsSearch ==
    /\ BackInCaller
    /\ caller = "benchmark"
    /\ IF pc = "returned" /\ Truthy(Get(response, "es_query"))
          /\ QueryTypeRaises(Get(response, "es_query"))
       THEN /\ es_payload' = Get(response, "es_query")
            /\ outcome' = "caught"
            /\ pc' = "idle"
            /\ UNCHANGED spans
       ELSE SearchIfQuery
    /\ UNCHANGED <<caller, transformer, natural_query, messages, raw_response, result, exc, response,
                   invocations, log, current_request_id, calls>>
    /\ UNCHANGED apart

\* trace_function(operation_name, include_args)(func), the wrapper called,
\* up to the call of func: the span is named operation_name, or after the
\* function when that is None or empty (both written "" here); its metadata
\* are args and kwargs when include_args is set; the function runs with the
\* span open, inside tracer.trace, which finishes the span however the
\* function ends
trace_function(s, operation_name, include_args, func) ==
    create_span(s,
                IF operation_name # "" THEN operation_name
                ELSE func.module \o "." \o func.name,
                IF include_args THEN {"args", "kwargs"} ELSE {})

\* performance_tracer.py run as a script, the example at its end:
\* start_request_trace("test_request"), then the block manual_trace is
\* entered and the script sleeps in it
TracerExample ==
    /\ pc = "idle"
    /\ caller = "none"
    /\ caller' = "performance_tracer"
    /\ current_request_id' = Str("test_request")
    /\ spans' = create_span(<<>>, "manual_trace", {"operation_type"})
    /\ pc' = "manual_trace"
    /\ UNCHANGED <<transformer, natural_query, messages, raw_response, result, exc,
                   response, invocations, log, es_payload, outcome, calls>>
    /\ UNCHANGED apart

\* the example: the block manual_trace is left, the decorated
\* slow_operation is called and sleeps with its span open
TracerExampleSlowOperation ==
    /\ pc = "manual_trace"
    /\ spans' = trace_function(finish(spans, Len(spans)), "test_operation", FALSE,
                               [module |-> "__main__", name |-> "slow_operation"])
    /\ pc' = "test_operation"
    /\ UNCHANGED <<caller, transformer, natural_query, messages, raw_response, result, exc,
                   response, invocations, log, current_request_id, es_payload, outcome,
                   calls>>
    /\ UNCHANGED apart

\* the example: slow_operation returns, the block another_operation is
\* entered and the script sleeps in it
TracerExampleAnotherOperation ==
    /\ pc = "test_operation"
    /\ spans' = create_span(finish(spans, Len(spans)), "another_operation", {})
    /\ pc' = "another_operation"
    /\ UNCHANGED <<caller, transformer, natural_query, messages, raw_response, result, exc,
                   response, invocations, log, current_request_id, es_payload, outcome,
                   calls>>
    /\ UNCHANGED apart

\* the example: the block another_operation is left, the summary is printed
\* and the script ends
TracerExampleEnds ==
    /\ pc = "another_operation"
    /\ spans' = finish(spans, Len(spans))
    /\ outcome' = "result"
    /\ pc' = "idle"
    /\ UNCHANGED <<caller, transformer, natural_query, messages, raw_response, result, exc,
                   response, invocations, log, current_request_id, es_payload, calls>>
    /\ UNCHANGED apart

\* requests.post returns or raises: send_to_elasticsearch runs to its return
\* and its caller to the end of the request, or to the exception it raises
\* on the way; benchmark_models and test_component_isolation do not look at
\* what was returned
IndexAnswers ==
    /\ pc = "es_pending"
    /\ \E es \in EsOutcomes :
          /\ spans' = es_response(spans, Len(spans), es)
          /\ outcome' =
                IF CASE caller = "app" -> UpdateOutputRaises(es.body)
                     [] caller = "elastic_query" -> ElasticMainRaises(es.body)
                     [] caller \in {"test_performance", "test_interactive"} ->
                            ResultCountRaises(es.body)
                     [] OTHER -> FALSE
                THEN "exception" ELSE "result"
    /\ pc' = "idle"
    /\ UNCHANGED <<caller, transformer, natural_query, messages, raw_response, result, exc, response,
                   invocations, log, current_request_id, es_payload, calls>>
    /\ UNCHANGED apart

Next ==
    \/ TracerExample
    \/ TracerExampleSlowOperation
    \/ TracerExampleAnotherOperation
    \/ TracerExampleEnds
    \/ UpdateOutputEmpty
    \/ UpdateOutput
    \/ UpdateOutputSearch
    \/ ElasticMainQuit
    \/ ElasticMainEmpty
    \/ ElasticMain
    \/ ElasticMainSearch
    \/ TransformerMainQuit
    \/ TransformerMainEmpty
    \/ TransformerMain
    \/ TransformerMainPrint
    \/ TestQueryPerformance
    \/ TestQueryPerformanceAgain
    \/ TestInteractiveQuit
    \/ TestInteractive
    \/ TestQueryPerformanceSearch
    \/ TestComponentIsolation
    \/ TestComponentIsolationSearch
    \/ BenchmarkModels
    \/ BenchmarkModelsSearch
    \/ IndexAnswers
    \/ PromptPreparation
    \/ InvokeModel
    \/ ProviderReturns
    \/ ProviderRaises
    \/ ParseOutput
    \/ ResponseParsing
    \/ ExceptClause

Spec == Init /\ [][Next]_vars

\* the statements of transform: the thread that entered transform runs them
\* one after the other, and llm.invoke either returns or raises
TransformStep ==
    \/ PromptPreparation
    \/ InvokeModel
    \/ ProviderReturns
    \/ ProviderRaises
    \/ ParseOutput
    \/ ResponseParsing
    \/ ExceptClause

\* transform driven by test_query_performance alone, which starts a fresh
\* trace for every request
NextLive ==
    \/ TestQueryPerformance
    \/ TestQueryPerformanceSearch
    \/ IndexAnswers
    \/ TransformStep

SpecLive == Init /\ [][NextLive]_vars /\ WF_vars(TransformStep)

\* the command-line loop of query_transformer.py and test_query_performance
\* serving one query after the other, every argument of llm.invoke kept on
\* record
NextOnRecord ==
    \/ BenchmarkModels
    \/ BenchmarkModelsSearch
    \/ TransformerMainQuit
    \/ TransformerMainEmpty
    \/ TransformerMain
    \/ TransformerMainPrint
    \/ TestQueryPerformance
    \/ TestQueryPerformanceAgain
    \/ TestQueryPerformanceSearch
    \/ IndexAnswers
    \/ PromptPreparation
    \/ InvokeModelOnRecord
    \/ ProviderReturns
    \/ ProviderRaises
    \/ ParseOutput
    \/ ResponseParsing
    \/ ExceptClause

SpecOnRecord == Init /\ [][NextOnRecord]_vars

(***************************************************************************)
(* clean_dict on its own: a nested structure of mappings, lists and        *)
(* scalars is pruned, and the pruned structure is pruned again.            *)
(***************************************************************************)
Scalars == {None, Str("x")}
Keys == {"a", "b"}

\* the dicts over Keys and the lists of at most MaxItems whose values are in S
DictsOf(S) == UNION {{Dict(f) : f \in [K -> S]} : K \in SUBSET Keys}
ListsOf(S) == UNION {{List(q) : q \in [1..n -> S]} : n \in 0..MaxItems}

\* structures nested two levels deep
Structures == LET inner == Scalars \cup DictsOf(Scalars) \cup ListsOf(Scalars)
              IN  inner \cup DictsOf(inner) \cup ListsOf(inner)

InitClean ==
    /\ InitRequest
    /\ InitThreads
    /\ InitConfig
    /\ prompts = {}
    /\ structure \in Structures
    /\ cleaned = <<>>

\* d = clean_dict(d)
CleanOnce ==
    /\ Len(cleaned) = 0
    /\ cleaned' = <<clean_dict(structure)>>
    /\ UNCHANGED <<request, structure, threads, prompts, config>>

\* clean_dict applied to what clean_dict returned
CleanAgain ==
    /\ Len(cleaned) = 1
    /\ cleaned' = Append(cleaned, clean_dict(cleaned[1]))
    /\ UNCHANGED <<request, structure, threads, prompts, config>>

NextClean ==
    \/ CleanOnce
    \/ CleanAgain

SpecClean == InitClean /\ [][NextClean]_vars

(***************************************************************************)
(* Requests served at the same time, as the callbacks of the threaded Dash *)
(* server are.  Every request runs transform, whose three trace_operation  *)
(* blocks append to and finish spans of the one module-level tracer, and   *)
(* then send_to_elasticsearch, which does the same with its own three; a   *)
(* request of test_performance.py calls start_request_trace before and     *)
(* get_trace_summary after.  Each tracer method call is one step, so a     *)
(* request waiting inside a block (for the model, for the index) has its   *)
(* span open while the other request moves.                                *)
(***************************************************************************)
\* the spans a transform call opens, in order
SpanNames == <<"llm_prompt_preparation", "llm_api_call", "llm_response_parsing">>

\* the spans of a whole request: those of transform, then the three
\* send_to_elasticsearch opens, in order
RequestSpanNames ==
    SpanNames \o <<"elasticsearch_request_preparation", "elasticsearch_http_request",
                   "elasticsearch_response_parsing">>

\* start_request binds tracer.spans to a new list: a comprehension that is
\* going through the old one keeps it, and nothing is appended to it any more
Rebound == [u \in Threads |-> IF t_spans[u] = [t |-> "self.spans"] THEN List(shared_spans) ELSE t_spans[u]]

\* the requests are named in the order they arrive in
Arrived(t) ==
    LET order == <<"req_1", "req_2">>
    IN  \A i \in 1..Len(order) : \A j \in 1..(i - 1) :
            order[i] = t => t_pc[order[j]] # "idle"

\* start_request_trace(request_id), then transformer.transform(query)
StartRequestTrace(t) ==
    /\ t_pc[t] = "idle"
    /\ Arrived(t)
    /\ shared_request_id' = Str(t)
    /\ shared_spans' = <<>>
    /\ t_spans' = Rebound
    /\ t_request_id' = [t_request_id EXCEPT ![t] = Str(t)]
    /\ t_pc' = [t_pc EXCEPT ![t] = "transform"]
    /\ UNCHANGED <<t_created, t_open, t_summary, request, pruning, prompts,
                   config>>

\* transformer.transform(value) with no request trace started
CallTransform(t) ==
    /\ t_pc[t] = "idle"
    /\ Arrived(t)
    /\ t_pc' = [t_pc EXCEPT ![t] = "transform"]
    /\ UNCHANGED <<t_request_id, t_created, t_open, t_summary, t_spans, shared_spans,
                   shared_request_id, request, pruning, prompts,
                   config>>

\* tracer.create_span on entering a trace_operation block, of transform or of
\* send_to_elasticsearch
CreateSpan(t) ==
    /\ t_pc[t] \in {"transform", "search"}
    /\ ~t_open[t]
    /\ t_created[t] < (IF t_pc[t] = "transform" THEN Len(SpanNames)
                       ELSE Len(RequestSpanNames))
    /\ shared_spans' = Append(shared_spans,
                              [name |-> RequestSpanNames[t_created[t] + 1], owner |-> t,
                               finished |-> FALSE])
    /\ t_created' = [t_created EXCEPT ![t] = @ + 1]
    /\ t_open' = [t_open EXCEPT ![t] = TRUE]
    /\ UNCHANGED <<t_pc, t_request_id, t_summary, t_spans, shared_request_id, request, pruning, prompts,
                   config>>

\* span.finish() on leaving the block: the span object is finished whether or
\* not tracer.spans still holds it
FinishSpan(t) ==
    /\ t_pc[t] \in {"transform", "search"}
    /\ t_open[t]
    /\ shared_spans' =
          [i \in 1..Len(shared_spans) |->
              IF /\ shared_spans[i].owner = t
                 /\ shared_spans[i].name = RequestSpanNames[t_created[t]]
              THEN [shared_spans[i] EXCEPT !.finished = TRUE]
              ELSE shared_spans[i]]
    /\ t_open' = [t_open EXCEPT ![t] = FALSE]
    /\ UNCHANGED <<t_pc, t_request_id, t_created, t_summary, t_spans, shared_request_id, request,
                   pruning, prompts,
                   config>>

\* transform returns to its caller: from the llm_response_parsing block, or
\* from the except clause after the llm_api_call block, the second, was left
\* by an exception of the model invocation or of parsing
Return(t) ==
    /\ t_pc[t] = "transform"
    /\ ~t_open[t]
    /\ t_created[t] \in {Len(SpanNames) - 1, Len(SpanNames)}
    /\ t_pc' = [t_pc EXCEPT ![t] = "caller"]
    /\ UNCHANGED <<t_request_id, t_created, t_open, t_summary, t_spans, shared_spans,
                   shared_request_id, request, pruning, prompts,
                   config>>

\* where a request goes once the index client is done with
AfterSearch(t) == IF t_request_id[t] # None THEN "summary" ELSE "done"

\* the caller goes on without a search: test_query_performance when es_query
\* is falsy, update_output when send_to_elasticsearch raises at once
NoSearch(t) ==
    /\ t_pc[t] = "caller"
    /\ t_pc' = [t_pc EXCEPT ![t] = AfterSearch(t)]
    /\ UNCHANGED <<t_request_id, t_created, t_open, t_summary, t_spans, shared_spans,
                   shared_request_id, request, pruning, prompts,
                   config>>

\* test_component_isolation: start_request_trace("elasticsearch_only") between
\* transform and send_to_elasticsearch
StartSearchTrace(t) ==
    /\ t_pc[t] = "caller"
    /\ t_request_id[t] = Str(t)
    /\ t_created[t] = Len(SpanNames)
    /\ shared_request_id' = Str("elasticsearch_only")
    /\ shared_spans' = <<>>
    /\ t_spans' = Rebound
    /\ t_request_id' = [t_request_id EXCEPT ![t] = Str("elasticsearch_only")]
    /\ t_pc' = [t_pc EXCEPT ![t] = "search"]
    /\ UNCHANGED <<t_created, t_open, t_summary, request, pruning, prompts,
                   config>>

\* the caller calls send_to_elasticsearch with the query transform returned
Search(t) ==
    /\ t_pc[t] = "caller"
    /\ t_created[t] = Len(SpanNames)
    /\ t_pc' = [t_pc EXCEPT ![t] = "search"]
    /\ UNCHANGED <<t_request_id, t_created, t_open, t_summary, t_spans, shared_spans,
                   shared_request_id, request, pruning, prompts,
                   config>>

\* send_to_elasticsearch returns: after the response was parsed, or from its
\* except clause when the HTTP request failed
SearchReturns(t) ==
    /\ t_pc[t] = "search"
    /\ ~t_open[t]
    /\ t_created[t] >= Len(RequestSpanNames) - 1
    /\ t_pc' = [t_pc EXCEPT ![t] = AfterSearch(t)]
    /\ UNCHANGED <<t_request_id, t_created, t_open, t_summary, t_spans, shared_spans,
                   shared_request_id, request, pruning, prompts,
                   config>>

\* PerformanceTracer.get_trace_summary when nothing runs between its reads of
\* the tracer: the request id and what it reports of each span (the two
\* entries made of durations, total_duration_ms and breakdown, are left out)
get_trace_summary(s, id) ==
    IF Len(s) = 0 THEN EmptyDict
    ELSE Dict([request_id |-> id, operations |-> List(s)])

\* get_trace_summary, line 80: `if not self.spans: return {}`
SummaryCheck(t) ==
    /\ t_pc[t] = "summary"
    /\ IF Len(shared_spans) = 0
       THEN /\ t_summary' = [t_summary EXCEPT ![t] = EmptyDict]
            /\ t_pc' = [t_pc EXCEPT ![t] = "done"]
       ELSE /\ t_pc' = [t_pc EXCEPT ![t] = "summary_id"]
            /\ UNCHANGED t_summary
    /\ UNCHANGED <<t_request_id, t_created, t_open, t_spans, shared_spans,
                   shared_request_id, request, pruning, prompts, config>>

\* get_trace_summary, line 86: 'request_id': self.current_request_id
SummaryRequestId(t) ==
    /\ t_pc[t] = "summary_id"
    /\ t_summary' = [t_summary EXCEPT ![t] = Dict([request_id |-> shared_request_id])]
    /\ t_pc' = [t_pc EXCEPT ![t] = "summary_operations"]
    /\ UNCHANGED <<t_request_id, t_created, t_open, t_spans, shared_spans,
                   shared_request_id, request, pruning, prompts, config>>

\* get_trace_summary, line 88: `self.spans` is read and the list
\* comprehension starts to go through the list it got
SummaryOperations(t) ==
    /\ t_pc[t] = "summary_operations"
    /\ t_spans' = [t_spans EXCEPT ![t] = [t |-> "self.spans"]]
    /\ t_summary' = [t_summary EXCEPT ![t] =
                         Dict([request_id |-> t_summary[t].d["request_id"],
                               operations |-> List(<<>>)])]
    /\ t_pc' = [t_pc EXCEPT ![t] = "summary_span"]
    /\ UNCHANGED <<t_request_id, t_created, t_open, shared_spans, shared_request_id,
                   request, pruning, prompts, config>>

\* TraceSpan.to_dict, of what it reports the name, whose span it is and
\* whether finish() has set end_time by now
to_dict(span) ==
    LET k == CHOOSE i \in 1..Len(RequestSpanNames) : RequestSpanNames[i] = span.name
    IN  [span EXCEPT !.finished =
            \/ t_created[span.owner] > k
            \/ t_created[span.owner] = k /\ ~t_open[span.owner]]

\* get_trace_summary, line 88, one turn of the list comprehension: the next
\* span of the list, if the list has one by now, is converted; if not, the
\* list is done with and the summary is returned
SummarySpan(t) ==
    LET list == IF t_spans[t] = [t |-> "self.spans"] THEN shared_spans ELSE t_spans[t].l
        operations == t_summary[t].d["operations"].l
    IN  /\ t_pc[t] = "summary_span"
        /\ IF Len(operations) < Len(list)
           THEN /\ t_summary' =
                      [t_summary EXCEPT ![t] =
                          Dict([request_id |-> t_summary[t].d["request_id"],
                                operations |->
                                    List(Append(operations,
                                                to_dict(list[Len(operations) + 1])))])]
                /\ UNCHANGED <<t_pc, t_spans>>
           ELSE /\ t_pc' = [t_pc EXCEPT ![t] = "done"]
                /\ t_spans' = [t_spans EXCEPT ![t] = None]
                /\ UNCHANGED t_summary
        /\ UNCHANGED <<t_request_id, t_created, t_open, shared_spans, shared_request_id,
                       request, pruning, prompts, config>>

NextThreads ==
    \E t \in Threads :
        \/ StartRequestTrace(t)
        \/ CallTransform(t)
        \/ CreateSpan(t)
        \/ FinishSpan(t)
        \/ Return(t)
        \/ NoSearch(t)
        \/ StartSearchTrace(t)
        \/ Search(t)
        \/ SearchReturns(t)
        \/ SummaryCheck(t)
        \/ SummaryRequestId(t)
        \/ SummaryOperations(t)
        \/ SummarySpan(t)

SpecThreads == Init /\ [][NextThreads]_vars

(***************************************************************************)
(* llm_config.py: building the model client from a provider name and the   *)
(* environment.                                                            *)
(***************************************************************************)
\* LLMConfig.DEFAULT_MODELS.get(provider)
DEFAULT_MODELS(p) ==
    CASE p = Str("openai") -> Str("gpt-4o-mini")
      [] p = Str("anthropic") -> Str("claude-3-haiku-20240307")
      [] p = Str("google") -> Str("gemini-2.5-flash-lite")
      [] OTHER -> None

\* LLMConfig.API_KEY_MAPPING.get(provider)
API_KEY_MAPPING(p) ==
    CASE p = Str("openai") -> Str("OPENAI_API_KEY")
      [] p = Str("anthropic") -> Str("ANTHROPIC_API_KEY")
      [] p = Str("google") -> Str("GOOGLE_API_KEY")
      [] OTHER -> None

\* str.lower() of a str value
LowerStr(v) == Text(lower(v.s))

\* f"{provider.upper()}_MODEL"
ModelVar(p) == Text(upper(p.s) \o Chars("_MODEL"))

ValueError(msg) == Exception("ValueError") @@ [msg |-> msg]

\* the chat model class built for a provider
ClientClass(p) ==
    CASE p = Str("openai") -> "ChatOpenAI"
      [] p = Str("anthropic") -> "ChatAnthropic"
      [] OTHER -> "ChatGoogleGenerativeAI"

\* LLMConfig.get_llm(provider, model)
get_llm(p, m, env) ==
    LET prov == IF p = None THEN LowerStr(getenv(env, Str("LLM_PROVIDER"), Str("openai")))
                ELSE p
        name == IF m = None THEN getenv(env, ModelVar(prov), DEFAULT_MODELS(prov)) ELSE m
        api_key == getenv(env, API_KEY_MAPPING(prov), None)
    IN  IF name.t = "exception" THEN name
        ELSE IF api_key.t = "exception" THEN api_key
        ELSE IF ~Truthy(api_key)
        THEN ValueError(<<"API key not found for provider", prov, "Set", API_KEY_MAPPING(prov)>>)
        ELSE IF prov \in {Str("openai"), Str("anthropic"), Str("google")}
        THEN [t |-> "client", cls |-> ClientClass(prov), model |-> name, api_key |-> api_key]
        ELSE ValueError(<<"Unsupported provider:", prov>>)

\* the provider names and environments get_llm is called with; the last
\* name is a lone surrogate, U+D800
Providers ==
    {None, Str("openai"), Str("anthropic"), Str("google"), Str("azure"), Str("OpenAI"),
     Text(<<55296>>)}
Models == {None, Str("gpt-4o")}
Environments ==
    {e \in [EnvVars -> {None, Str(""), Str("sk"), Str("GOOGLE"), Str("azure"), Str("gpt-4o")}] :
        /\ \A v \in {"OPENAI_API_KEY", "ANTHROPIC_API_KEY", "GOOGLE_API_KEY"} :
              e[v] \in {None, Str(""), Str("sk")}
        /\ e["LLM_PROVIDER"] \in {None, Str("GOOGLE"), Str("azure")}
        /\ e["LLM_MODEL"] \in {None, Str("gpt-4o")}}

InitGetLLM ==
    /\ InitRequest
    /\ InitPruning
    /\ InitThreads
    /\ prompts = {}
    /\ provider \in Providers
    /\ model \in Models
    /\ environ \in Environments
    /\ llm = NotCalled

\* LLMConfig.get_llm(provider=provider, model=model)
GetLLM ==
    /\ llm = NotCalled
    /\ llm' = get_llm(provider, model, environ)
    /\ UNCHANGED <<provider, model, environ, request, pruning, threads, prompts>>

\* QueryTransformer.__init__: create_llm with the provider and model that
\* Settings read from the environment
QueryTransformerInit ==
    /\ llm = NotCalled
    /\ provider' = getenv(environ, Str("LLM_PROVIDER"), Str("openai"))
    /\ model' = getenv(environ, Str("LLM_MODEL"), Str("gpt-4o-mini"))
    /\ llm' = get_llm(provider', model', environ)
    /\ UNCHANGED <<environ, request, pruning, threads, prompts>>

NextGetLLM ==
    \/ GetLLM
    \/ QueryTransformerInit

SpecGetLLM == InitGetLLM /\ [][NextGetLLM]_vars

(***************************************************************************)
(* Vocabulary of the properties.                                           *)
(***************************************************************************)
\* the fallback the specification prescribes: empty answer, empty bool clause
MatchAllFallback == Dict([answer |-> Str(""), es_query |-> Dict(BoolOf(EmptyDict))])

\* the two shapes of a result
AnswerOnly(r) == Get(r, "answer").t = "str" /\ Get(r, "es_query") = None
QueryPresent(r) == Get(r, "es_query").t = "dict"

\* the field paths of the index mapping given in the system message
SchemaFields ==
    {"analyst_consensus_price_target.currency", "analyst_consensus_price_target.price",
     "analyst_consensus_price_target.nr_analysts", "analyst_recommendation_count",
     "analyst_recommendations.BUY", "analyst_recommendations.HOLD",
     "analyst_recommendations.OUTPERFORM", "analyst_recommendations.UNDERPERFORM",
     "analyst_upward_potential", "currency", "debt_equity_latest", "description",
     "div_yield_current", "div_yield_current_fy", "div_yield_ttm",
     "dividend_payout_ratio_ttm", "eps_growth_last_5y", "eps_ttm", "equity_industry",
     "equity_sector", "financial_health_stars", "growth_stars", "isin", "market_cap",
     "momentum_stars", "name", "net_profit_margin_ttm", "number_of_employees",
     "price_book_latest", "price_earnings_ex_extra_ttm", "price_sales_ttm",
     "profitability_stars", "roe_ttm", "size_label", "stability_stars",
     "value_growth_label", "value_stars"}

\* the six fields the system message names in its .keyword rule, under that
\* suffix
KeywordPaths ==
    {"currency.keyword", "equity_industry.keyword", "equity_sector.keyword",
     "isin.keyword", "size_label.keyword", "value_growth_label.keyword"}

KnownPaths == SchemaFields \cup KeywordPaths

\* the enumerations the system message declares, by field path
Sectors ==
    {"BASIC_MATERIALS", "CONSUMER_CYCLICAL", "FINANCIAL_SERVICES", "REAL_ESTATE",
     "COMMUNICATION_SERVICES", "ENERGY", "INDUSTRIALS", "TECHNOLOGY",
     "CONSUMER_DEFENSIVE", "HEALTHCARE", "UTILITIES", "EDUCATION", "OTHER"}
EnumeratedPaths ==
    {"equity_sector", "equity_sector.keyword", "size_label", "size_label.keyword",
     "value_growth_label", "value_growth_label.keyword"}
Enumeration(path) ==
    IF path \in {"equity_sector", "equity_sector.keyword"} THEN Sectors
    ELSE IF path \in {"size_label", "size_label.keyword"} THEN {"SMALL", "LARGE"}
    ELSE {"VALUE", "GROWTH"}

\* the predicates of a returned query: every item of every clause list
ClauseOf(r) == r.d["es_query"].d["query"].d["bool"]
PredicatesOf(r) ==
    IF QueryPresent(r)
    THEN UNION {{ClauseOf(r).d[c].l[i] : i \in 1..Len(ClauseOf(r).d[c].l)} :
                   c \in DOMAIN ClauseOf(r).d}
    ELSE {}
\* the field paths a predicate names
PathsOf(p) == UNION {DOMAIN p.d[kind].d : kind \in DOMAIN p.d}

(***************************************************************************)
(* Properties.                                                             *)
(***************************************************************************)
\* C1: transform is total: whatever the provider and the parser do, no
\* exception leaves transform, and what it returns is a dictionary.
TransformIsTotal ==
    /\ pc # "propagated"
    /\ pc = "returned" => response.t = "dict"

\* C1 witness: transform has returned after the provider raised.
TransformReturnedAfterProviderError ==
    /\ pc = "returned"
    /\ exc.t = "exception" /\ exc.type = "RateLimitError"
    /\ response.t = "dict"

\* C2: when the provider invocation fails, transform returns the match-all
\* fallback: empty answer text and a query whose bool clause is empty.
ProviderFailureGivesMatchAll ==
    (pc = "returned" /\ exc \in ProviderErrors)
        => response = MatchAllFallback

\* C3: when the model output cannot be parsed as the expected shape,
\* transform returns the match-all fallback.
ParseFailureGivesMatchAll ==
    (pc = "returned" /\ exc = OutputParserException) => response = MatchAllFallback

\* C4: for empty and whitespace-only input the provider is never invoked and
\* transform returns an answer-only result.
BlankInputNeverInvokesProvider ==
    (outcome = "pending" /\ strip(natural_query) = <<>>)
        => /\ invocations = 0
           /\ pc = "returned" => AnswerOnly(response)

\* C5: every returned result is answer-only or carries a query; none has both
\* the answer and the query absent.
ResultHasAnswerOrQuery ==
    pc = "returned" => (AnswerOnly(response) \/ QueryPresent(response))

\* C6: every value transform returns is a mapping with both keys 'answer'
\* and 'es_query', on the success path and on the failure path.
ResultHasBothKeys ==
    pc = "returned" => HasBothKeys(response)

\* C6 witness: the model output had neither an answer nor a query, it parsed,
\* and the returned mapping still has both keys.
BothKeysWithNothingToReport ==
    /\ pc = "returned"
    /\ exc = None
    /\ result.f["answer"] = None
    /\ result.f["es_query"] = None
    /\ HasBothKeys(response)

\* C7: in update_output and elastic_query.main the index client never
\* receives a null query and the caller never ends in an exception.
SearchFlowNeverFails ==
    caller \in {"app", "elastic_query"}
        => (es_payload # None /\ outcome # "exception")

\* C8: one transform call invokes the provider exactly once: never more than
\* once, and once by the time it returns, whether the invocation succeeded,
\* failed, or its output failed to parse.
ProviderInvokedExactlyOnce ==
    /\ invocations <= 1
    /\ (pc \in {"parse", "response_parsing", "except", "returned"}
          /\ natural_query # <<>>) => invocations = 1

\* C8 witness: a call on non-empty input has returned after a parse failure,
\* having invoked the provider once.
ReturnedAfterParseFailureWithoutRetry ==
    /\ pc = "returned"
    /\ natural_query = Chars("a")
    /\ exc = OutputParserException
    /\ invocations = 1

\* C9: transform never returns a query with a predicate on a field path that
\* is not in the schema.
NoPredicateOnUnknownField ==
    pc = "returned" => \A p \in PredicatesOf(response) : PathsOf(p) \subseteq KnownPaths

\* C10: transform never returns a term predicate on an enumerated field whose
\* value is outside the field's enumeration.
NoTermOutsideEnumeration ==
    pc = "returned" =>
        \A p \in PredicatesOf(response) :
            "term" \in DOMAIN p.d =>
                \A f \in DOMAIN p.d["term"].d \cap EnumeratedPaths :
                    /\ p.d["term"].d[f].t = "str"
                    /\ p.d["term"].d[f] \in {Str(e) : e \in Enumeration(f)}

\* the declared kind of the fields, from the index mapping
TextFields == {"description", "name"}
KeywordFields ==
    {"analyst_consensus_price_target.currency", "currency", "equity_industry",
     "equity_sector", "isin", "size_label", "value_growth_label"}
NumericFields == SchemaFields \ (TextFields \cup KeywordFields)

\* the bound keys of a range predicate
RangeKeys == {"gt", "gte", "lt", "lte"}

\* C11: every range predicate of a returned query has bounds that are a
\* non-empty subset of {gt, gte, lt, lte}; a range with no bound or with any
\* other key is rejected by validation.
RangeBoundsAreLegal ==
    pc = "returned" =>
        \A p \in PredicatesOf(response) :
            "range" \in DOMAIN p.d =>
                \A f \in DOMAIN p.d["range"].d :
                    /\ DOMAIN p.d["range"].d[f].d # {}
                    /\ DOMAIN p.d["range"].d[f].d \subseteq RangeKeys

\* C12: every predicate of a returned query that names a field of the schema
\* has a kind compatible with the declared kind of that field: match on text,
\* term on keyword, range on numeric fields.
PredicateKindFitsField ==
    pc = "returned" =>
        \A p \in PredicatesOf(response) :
            /\ "match" \in DOMAIN p.d =>
                  DOMAIN p.d["match"].d \cap KnownPaths \subseteq TextFields
            /\ "term" \in DOMAIN p.d =>
                  DOMAIN p.d["term"].d \cap KnownPaths
                      \subseteq KeywordFields \cup KeywordPaths
            /\ "range" \in DOMAIN p.d =>
                  DOMAIN p.d["range"].d \cap KnownPaths \subseteq NumericFields

\* whether a returned query declares a predicate, a sort or an aggregation
DeclaresSomething(q) ==
    \/ \E c \in DOMAIN q.d["query"].d["bool"].d :
          /\ q.d["query"].d["bool"].d[c].t = "list"
          /\ Len(q.d["query"].d["bool"].d[c].l) > 0
    \/ "sort" \in DOMAIN q.d
    \/ "aggs" \in DOMAIN q.d

\* C13: a query that declares no clause predicate and no sort or aggregation
\* is never returned by transform as a successfully interpreted query.
NoEmptyQueryReturned ==
    (pc = "returned" /\ exc = None /\ QueryPresent(response))
        => DeclaresSomething(response.d["es_query"])

\* whether None occurs anywhere in a structure
RECURSIVE HasNone(_)
HasNone(v) ==
    CASE v.t = "None" -> TRUE
      [] v.t = "dict" -> \E k \in DOMAIN v.d : HasNone(v.d[k])
      [] v.t = "list" -> \E i \in 1..Len(v.l) : HasNone(v.l[i])
      [] OTHER -> FALSE

\* the optional top-level fields of ElasticsearchQuery, by field name
OptionalFields == {"sort", "from_", "size", "aggs"}

\* a query returned on the success path, with the instance it was dumped from
SuccessWithQuery == pc = "returned" /\ exc = None /\ QueryPresent(response)

\* whether a returned query holds an empty clause list or empty range bounds
HasEmptyPart(r) ==
    \/ \E c \in DOMAIN ClauseOf(r).d : Len(ClauseOf(r).d[c].l) = 0
    \/ \E p \in PredicatesOf(r) :
          /\ "range" \in DOMAIN p.d
          /\ \E f \in DOMAIN p.d["range"].d : DOMAIN p.d["range"].d[f].d = {}

\* C14, as amended: the returned es_query holds no None at any depth, and an
\* optional top-level field is a key of it exactly when the field is set.
ReturnedQueryHasNoNulls ==
    SuccessWithQuery =>
        /\ ~HasNone(response.d["es_query"])
        /\ \A f \in OptionalFields :
              f \in DOMAIN response.d["es_query"].d
                  <=> result.f["es_query"].f[f] # None

\* C14 witness: a query was returned whose clause the model had spelled with
\* nulls, and whose dump held None for the unset optional fields.
NullsWerePruned ==
    /\ SuccessWithQuery
    /\ \E c \in DOMAIN raw_response.content.d["es_query"].d["query"].d["bool"].d :
          raw_response.content.d["es_query"].d["query"].d["bool"].d[c] = None
    /\ HasNone(model_dump(result.f["es_query"]))
    /\ ~HasNone(response.d["es_query"])

\* C14, as stated: besides nulls and absent optional fields, the returned
\* es_query holds no empty clause list and no empty range-bounds object.
ReturnedQueryHasNoNullsNorEmptyParts ==
    SuccessWithQuery =>
        /\ ~HasNone(response.d["es_query"])
        /\ ~HasEmptyPart(response)

\* C15: clean_dict is idempotent: cleaning what clean_dict returned gives the
\* same structure again.
CleanDictIdempotent ==
    Len(cleaned) = 2 => cleaned[2] = cleaned[1]

\* C15 witness: a structure with None nested inside an inner dict or list was
\* cleaned twice, and the first pass changed it.
NestedStructureCleanedTwice ==
    /\ Len(cleaned) = 2
    /\ structure.t = "dict"
    /\ \E k \in DOMAIN structure.d :
          /\ structure.d[k].t \in {"dict", "list"}
          /\ HasNone(structure.d[k])
    /\ cleaned[1] # structure
    /\ ~HasNone(cleaned[2])

\* the structure a returned query gives when validated, dumped and pruned again
Revalidated(q) == clean_dict(model_dump(ElasticsearchQuery(q)))

\* C16: a query returned on the success path is accepted again by the
\* ElasticsearchQuery model, and validating it again yields the same query.
RevalidationRoundTrips ==
    SuccessWithQuery =>
        /\ ~IsError(ElasticsearchQuery(response.d["es_query"]))
        /\ Revalidated(response.d["es_query"]) = response.d["es_query"]

\* C16 witness: a query whose offset the model spelled under the alias "from"
\* was returned with the offset under the field name, and validates again.
ReturnedOffsetRevalidates ==
    /\ SuccessWithQuery
    /\ "from" \in DOMAIN raw_response.content.d["es_query"].d
    /\ "from_" \in DOMAIN response.d["es_query"].d
    /\ "from" \notin DOMAIN response.d["es_query"].d
    /\ Revalidated(response.d["es_query"]) = response.d["es_query"]

\* whether a can be had from b by deleting entries, the others kept in order
RECURSIVE IsSubsequence(_, _)
IsSubsequence(a, b) ==
    IF Len(a) = 0 THEN TRUE
    ELSE IF Len(b) = 0 THEN FALSE
    ELSE IF Head(a) = Head(b) THEN IsSubsequence(Tail(a), Tail(b))
    ELSE IsSubsequence(a, Tail(b))

\* the bool clause as the model spelled it
ModelClause == raw_response.content.d["es_query"].d["query"].d["bool"]

\* the predicates the model listed under clause c, each as the grammar reads it
ModelPredicates(c) ==
    IF c \in DOMAIN ModelClause.d /\ ModelClause.d[c].t = "list"
    THEN [i \in 1..Len(ModelClause.d[c].l) |-> model_dump(LeafQuery(ModelClause.d[c].l[i]))]
    ELSE <<>>

\* C17: under each of must, should, must_not and filter the returned
\* predicates are predicates the model listed under that same clause, in the
\* same relative order.
ClauseOrderKept ==
    SuccessWithQuery =>
        \A c \in DOMAIN ClauseOf(response).d :
            /\ c \in ClauseNames
            /\ IsSubsequence(ClauseOf(response).d[c].l, ModelPredicates(c))

\* C17 witness: a clause of two different predicates was returned, first and
\* second as the model listed them, the unset clauses pruned away.
TwoPredicatesReturnedInOrder ==
    /\ SuccessWithQuery
    /\ \E c \in DOMAIN ClauseOf(response).d :
          /\ Len(ClauseOf(response).d[c].l) = 2
          /\ ClauseOf(response).d[c].l[1] # ClauseOf(response).d[c].l[2]
          /\ ClauseOf(response).d[c].l[1] = ModelClause.d[c].l[1]
          /\ ClauseOf(response).d[c].l[2] = ModelClause.d[c].l[2]
    /\ DOMAIN ClauseOf(response).d # ClauseNames

\* the provider returned a document with a non-empty answer text and a query
\* the ElasticsearchQuery model accepts
WellFormedSearch ==
    /\ raw_response # None
    /\ raw_response.content.t = "dict"
    /\ Get(raw_response.content, "answer").t = "str"
    /\ Get(raw_response.content, "answer") # Str("")
    /\ Get(raw_response.content, "es_query").t = "dict"
    /\ ~IsError(ElasticsearchQuery(Get(raw_response.content, "es_query")))

\* the scenario's document: three predicates under filter
BanksWithDividends ==
    Dict([answer |-> Str("Searching for banks"),
          es_query |-> Dict(BoolOf(Dict("filter" :> List(
              <<Term("currency.keyword", Str("EUR")),
                Term("equity_industry.keyword", Str("Banks")),
                Range("div_yield_ttm", "gte" :> Float(0, 3))>>))))])

\* C18: when the provider returns a non-empty answer text and a valid query,
\* transform returns that answer text and a query holding, under each clause,
\* exactly the predicates the model listed under it, and no other clause.
SearchReturnsModelPredicates ==
    (pc = "returned" /\ WellFormedSearch) =>
        /\ exc = None
        /\ QueryPresent(response)
        /\ response.d["answer"] = raw_response.content.d["answer"]
        /\ \A c \in ClauseNames :
              IF c \in DOMAIN ModelClause.d /\ ModelClause.d[c] # None
              THEN /\ c \in DOMAIN ClauseOf(response).d
                   /\ ClauseOf(response).d[c].l = ModelPredicates(c)
              ELSE c \notin DOMAIN ClauseOf(response).d
        /\ DOMAIN ClauseOf(response).d \subseteq ClauseNames

\* C18 witness: the scenario's document came back from the provider and
\* transform returned it as it was.
BanksWithDividendsReturned ==
    /\ pc = "returned"
    /\ WellFormedSearch
    /\ raw_response.content = BanksWithDividends
    /\ response = BanksWithDividends

\* the provider returned a document holding an answer text and no query
WellFormedAnswer ==
    /\ raw_response # None
    /\ raw_response.content.t = "dict"
    /\ Get(raw_response.content, "answer").t = "str"
    /\ Get(raw_response.content, "es_query") = None

\* C19: when the provider returns a document containing only an answer text,
\* transform returns exactly that text with es_query None.
AnswerReturnsModelText ==
    (pc = "returned" /\ WellFormedAnswer) =>
        /\ exc = None
        /\ AnswerOnly(response)
        /\ response = Dict([answer |-> raw_response.content.d["answer"],
                            es_query |-> None])

\* C19 witness: a document with a non-empty answer and no es_query key came
\* back from the provider and transform returned its text.
AnswerTextReturned ==
    /\ pc = "returned"
    /\ WellFormedAnswer
    /\ DOMAIN raw_response.content.d = {"answer"}
    /\ response.d["answer"] = Str("Searching for banks")
    /\ response.d["es_query"] = None

\* the spans transform opens
TransformSpans == {"llm_prompt_preparation", "llm_api_call", "llm_response_parsing"}

\* C20: no state written by one transform call is visible to a later call:
\* when a call begins, the tracer's span list holds no span of an earlier
\* transform call.
NoSpanOfEarlierCallVisible ==
    pc = "transform" =>
        \A i \in 1..Len(spans) : spans[i].name \notin TransformSpans

\* the spans request t has opened since it last started a trace
TraceStart(t) ==
    IF t_request_id[t] = Str("elasticsearch_only") THEN Len(SpanNames) ELSE 0

\* the trace of request t running alone: the spans it opened since it last
\* started a trace, all but an open last one finished
OwnSpans(t) ==
    [i \in 1..(t_created[t] - TraceStart(t)) |->
        [name |-> RequestSpanNames[TraceStart(t) + i], owner |-> t,
         finished |-> ~(t_open[t] /\ TraceStart(t) + i = t_created[t])]]

\* the trace summary request t gets when no other request runs
SummaryAlone(t) == get_trace_summary(OwnSpans(t), t_request_id[t])

\* C21: requests running at the same time do not touch each other's trace:
\* while a request that started its own trace is in flight, the trace holds
\* exactly the spans it opened, and the summary it gets is the one it would
\* get running alone.
ConcurrentTracesAreSeparate ==
    \A t \in Threads :
        /\ (t_request_id[t] # None /\ t_pc[t] \notin {"idle", "done"}) =>
               shared_spans = OwnSpans(t)
        /\ (t_request_id[t] # None /\ t_pc[t] = "done") => t_summary[t] = SummaryAlone(t)

\* the steps a call may take from one stage of transform to the next
StageOrder ==
    \/ pc = "idle" /\ pc' = "transform"
    \/ /\ pc = "transform" /\ pc' = "api_call"
       /\ messages' = <<SystemMessage(transformer), HumanMessage(natural_query)>>
       /\ invocations' = 0
    \/ /\ pc = "api_call" /\ pc' = "invoking"
       /\ messages = <<SystemMessage(transformer), HumanMessage(natural_query)>>
       /\ raw_response' = None /\ result' = None
    \/ pc = "invoking" /\ pc' = "parse" /\ raw_response' # None /\ result' = None
    \/ pc = "invoking" /\ pc' = "except" /\ raw_response' = None /\ result' = None
    \/ pc = "parse" /\ pc' = "response_parsing" /\ result' # None
    \/ pc = "parse" /\ pc' = "except" /\ result' = None
    \/ pc = "response_parsing" /\ pc' = "returned"
    \/ pc = "except" /\ pc' = "returned" /\ result' = None
    \/ pc = "returned" /\ pc' \in {"idle", "es_pending"}
    \/ pc = "es_pending" /\ pc' = "idle"

\* C22: a call goes from entry to prompt built, to model invoked, to either
\* interpretation of the returned output or the handling of a failure, to
\* its return: the prompt is whole before the model is invoked, output is
\* interpreted only after the model returned it, a provider failure skips
\* interpretation, and every call that was entered returns.
CallFollowsStages ==
    /\ [][pc' # pc => StageOrder]_vars
    /\ (pc = "transform") ~> (pc = "returned")

\* C22 witness: a call returned after its output was interpreted, the prompt
\* built and the model invoked once before.
ReturnedThroughEveryStage ==
    /\ pc = "returned"
    /\ messages = <<SystemMessage(transformer), HumanMessage(natural_query)>>
    /\ invocations = 1
    /\ raw_response # None
    /\ result # None
    /\ exc = None

\* the provider returned a document holding neither an answer text nor a query
OutputIsEmpty ==
    /\ raw_response # None
    /\ raw_response.content.t = "dict"
    /\ Get(raw_response.content, "answer") = None
    /\ Get(raw_response.content, "es_query") = None

\* the provider returned a document holding a query the grammar accepts
OutputHasQuery ==
    /\ raw_response # None
    /\ raw_response.content.t = "dict"
    /\ Get(raw_response.content, "answer").t \in {"None", "str"}
    /\ Get(raw_response.content, "es_query").t = "dict"
    /\ ~IsError(ElasticsearchQuery(Get(raw_response.content, "es_query")))

\* C23: an output that parses but holds neither answer text nor query is
\* handled as a failure, not returned as a success; an output with a valid
\* query gives a result with that query, and one with only answer text gives
\* an answer-only result.
EmptyOutputIsFailure ==
    pc = "returned" =>
        /\ OutputIsEmpty => (exc # None /\ response = FailureResult)
        /\ OutputHasQuery => (exc = None /\ QueryPresent(response))
        /\ WellFormedAnswer => (exc = None /\ AnswerOnly(response))

\* C24: pruning comes after validation and reaches every query returned on
\* the success path: what is validated is the document as the model gave it,
\* a document the grammar rejects ends in the failure path even when pruning
\* would make it acceptable, and a returned query is the pruned dump of the
\* validated instance.
PruningFollowsValidation ==
    /\ (pc \in {"response_parsing", "returned"} /\ result # None) =>
           result = AnswerOrESQuery(raw_response.content)
    /\ (pc = "returned" /\ raw_response # None
           /\ IsError(AnswerOrESQuery(raw_response.content))) =>
           (exc = OutputParserException /\ result = None)
    /\ SuccessWithQuery =>
           /\ response.d["es_query"] = clean_dict(model_dump(result.f["es_query"]))
           /\ ~HasNone(response.d["es_query"])

\* C24 witness: a document was validated as given, and the query returned
\* differs from the dump of the validated instance by the pruning alone.
PrunedAfterValidation ==
    /\ SuccessWithQuery
    /\ result = AnswerOrESQuery(raw_response.content)
    /\ HasNone(raw_response.content)
    /\ response.d["es_query"] # model_dump(result.f["es_query"])
    /\ response.d["es_query"] = clean_dict(model_dump(result.f["es_query"]))

\* what the ERROR records emitted since the call began show
Logged == UNION {log[i].shows : i \in {j \in 1..Len(log) : log[j].level = "ERROR"}}

\* C25: a failure recovered inside transform leaves at least one ERROR record
\* before transform returns, and the records show the input text and, when
\* the model returned output, the raw output.
FailuresAreLoggedWithContext ==
    (pc = "returned" /\ exc # None) =>
        /\ \E i \in 1..Len(log) : log[i].level = "ERROR"
        /\ "natural_query" \in Logged
        /\ raw_response # None => "raw_response.content" \in Logged

ProviderFailuresGiveOneResult ==
    (pc = "returned" /\ exc \in ProviderErrors) =>
        response = Dict([answer |-> Str("Sorry, I couldn't process your query."),
                         es_query |-> None])

\* C27 witness: transform returned after llm.invoke raised a connection
\* error, one of the two kinds of provider error, with an answer-only result.
ReturnedAfterConnectionError ==
    /\ pc = "returned"
    /\ exc.t = "exception" /\ exc.type = "APIConnectionError"
    /\ raw_response = None
    /\ AnswerOnly(response)

\* the provider name get_llm works with
EffectiveProvider ==
    IF provider = None
    THEN LowerStr(getenv(environ, Str("LLM_PROVIDER"), Str("openai")))
    ELSE provider

Supported == {Str("openai"), Str("anthropic"), Str("google")}

\* C28: get_llm with a provider outside openai, anthropic and google raises
\* ValueError 'Unsupported provider: <name>'; with a supported provider whose
\* key variable is unset it raises ValueError naming the variable; in both
\* cases no client is built.
GetLLMRaisesValueError ==
    llm # NotCalled =>
        /\ EffectiveProvider \notin Supported =>
               llm = ValueError(<<"Unsupported provider:", EffectiveProvider>>)
        /\ (/\ EffectiveProvider \in Supported
            /\ getenv(environ, API_KEY_MAPPING(EffectiveProvider), None) = None) =>
               /\ llm.t = "exception"
               /\ llm.type = "ValueError"
               /\ llm.msg[4] = API_KEY_MAPPING(EffectiveProvider)

\* the spans that are still open
OpenSpans == {i \in 1..Len(spans) : ~spans[i].finished}

\* where control is inside a traced block: llm_api_call while the model is
\* asked and its output parsed, elasticsearch_http_request while the index is
\* asked, and the three blocks of the tracer's example while it sleeps in them
InBlock ==
    {"invoking", "parse", "es_pending", "manual_trace", "test_operation",
     "another_operation"}

\* C29: a span is finished by the time its block is left, by return or by
\* exception, and the exception goes on to the except clause: a span is open
\* only while control is inside its block, and none is open once transform
\* has returned.
SpansFinishedOnExit ==
    /\ pc \in InBlock => OpenSpans = {Len(spans)}
    /\ pc \notin InBlock => OpenSpans = {}
    /\ pc = "except" => exc # None

\* C29 witness: transform returned after llm.invoke raised inside the
\* llm_api_call block, and the span of that block is finished.
SpanFinishedAfterRaise ==
    /\ pc = "returned"
    /\ exc # None
    /\ raw_response = None
    /\ spans[Len(spans)].name = "llm_api_call"
    /\ spans[Len(spans)].finished

\* the names the search index knows the optional top-level fields by
WireNames == {"from", "size", "sort", "aggs"}

\* C30: the optional top-level fields keep their wire names: an offset the
\* model gave under "from" is returned under "from", size, sort and aggs
\* under their own names, and the offset under no other name.
WireNamesKept ==
    SuccessWithQuery =>
        \A k \in WireNames :
            Get(raw_response.content.d["es_query"], k) # None =>
                /\ Get(response.d["es_query"], k) = Get(raw_response.content.d["es_query"], k)
                /\ DOMAIN response.d["es_query"].d \subseteq {"query"} \cup WireNames

====
